---- MODULE Spec2Model ----
(***************************************************************************)
(* A model of the diameter chord-chart tool: the pitch / letter / scale    *)
(* degree arithmetic of theory/notes.rs and theory/scales.rs, the chart    *)
(* transforms of chordpro/charts.rs, the ChordPro parser of                *)
(* chordpro/parser.rs and the text renderer (Display) of charts.rs.        *)
(*                                                                         *)
(* Text is a sequence of characters (one-character strings).  A value that *)
(* a Rust function cannot return because it panics is the record Panic.    *)
(***************************************************************************)
EXTENDS Integers, Sequences, FiniteSets, TLC

VARIABLES
    arg,        \* theory: the inputs of the pure function under study
    out,        \* theory: the sequence of values computed from arg so far
    input,      \* chart: the text handed to the parser
    extensions, \* chart: EXTENSIONS_ENABLED of the thread that parses
    chart,      \* chart: the Chart (its lines), or NoChart
    pc,         \* chart: "start", "parsed", "parse_error", "panicked",
                \* "rendered"; "idle" while the theory functions are studied
    prev,       \* chart: the chart as it was before the last operation
    last,       \* chart: the last operation called and its arguments
    output,     \* chart: the text written by the last Display, or NoText
    nops,       \* chart: number of operations called so far
    threads     \* threads: for each thread its EXTENSIONS_ENABLED cell and
                \* its parse in progress; <<>> where one thread runs alone

vars == <<arg, out, input, extensions, chart, pc, prev, last, output, nops, threads>>
theoryVars == <<arg, out>>
chartVars == <<input, extensions, chart, pc, prev, last, output, nops>>

(***************************************************************************)
(* Fixed-width integers.  as i8 / as u8 casts reinterpret modulo 2^8.      *)
(***************************************************************************)
AsI8(x) == ((x + 128) % 256) - 128
AsU8(x) == x % 256

Panic == [tag |-> "Panic"]
None == [tag |-> "None"]

(***************************************************************************)
(* theory/notes.rs                                                         *)
(***************************************************************************)
Letters == {"C", "D", "E", "F", "G", "A", "B"}

DOUBLE_FLAT == -2
FLAT == -1
NATURAL == 0
SHARP == 1
DOUBLE_SHARP == 2

\* The accidentals the five constants name: what the grammar can write.
Accidentals == DOUBLE_FLAT .. DOUBLE_SHARP

LetterNote(l, a) == [tag |-> "Letter", letter |-> l, acc |-> a]
ScaleDegree(d, a) == [tag |-> "Number", degree |-> d, acc |-> a]
Scale(n) == n

MidiPitch_as_int(p) == AsI8(p)

Letter_from_int(value) ==
    CASE value % 7 = 0 -> "C"
      [] value % 7 = 1 -> "D"
      [] value % 7 = 2 -> "E"
      [] value % 7 = 3 -> "F"
      [] value % 7 = 4 -> "G"
      [] value % 7 = 5 -> "A"
      [] value % 7 = 6 -> "B"

Letter_as_int(l) ==
    CASE l = "C" -> 0
      [] l = "D" -> 1
      [] l = "E" -> 2
      [] l = "F" -> 3
      [] l = "G" -> 4
      [] l = "A" -> 5
      [] l = "B" -> 6

\* Letter::as_midi counted from a higher octave: pitch + 120.
Mut_Letter_as_midi_high(l) ==
    LET pitch == CASE l = "C" -> 0
                   [] l = "D" -> 2
                   [] l = "E" -> 4
                   [] l = "F" -> 5
                   [] l = "G" -> 7
                   [] l = "A" -> 9
                   [] l = "B" -> 11
    IN  AsU8(pitch + 120)

Letter_as_midi(l) ==
    LET pitch == CASE l = "C" -> 0
                   [] l = "D" -> 2
                   [] l = "E" -> 4
                   [] l = "F" -> 5
                   [] l = "G" -> 7
                   [] l = "A" -> 9
                   [] l = "B" -> 11
    IN  AsU8(pitch + 60)

LetterNote_as_midi(n) ==
    LET base_pitch == MidiPitch_as_int(Letter_as_midi(n.letter))
        pitch == AsI8(base_pitch + n.acc)
    IN  AsU8(pitch)

\* if x > 6 { x -= 12 }: from 0..11 to the half-open range (-6, 6].
FoldOctave(x) == IF x > 6 THEN x - 12 ELSE x

\* A plausible slip: the accidental is left in 0..11 (no fold to (-6, 6]).
Mut_LetterNote_add_accidentals_to_match_nofold(n, target) ==
    LET base_pitch == MidiPitch_as_int(Letter_as_midi(n.letter))
        target_pitch == MidiPitch_as_int(target)
    IN  LetterNote(n.letter, AsI8(target_pitch - base_pitch) % 12)

LetterNote_add_accidentals_to_match(n, target) ==
    LET base_pitch == MidiPitch_as_int(Letter_as_midi(n.letter))
        target_pitch == MidiPitch_as_int(target)
    IN  LetterNote(n.letter, FoldOctave(AsI8(target_pitch - base_pitch) % 12))

Accidental_new(delta) ==
    IF -2 <= delta /\ delta <= 2
    THEN [tag |-> "Accidental", int |-> delta]
    ELSE Panic

MidiPitch_add_i8(p, rhs) == AsU8(AsI8(MidiPitch_as_int(p) + rhs))

Letter_add_i8(l, rhs) == Letter_from_int(AsU8(AsI8(Letter_as_int(l) + rhs) % 7))

(***************************************************************************)
(* theory/scales.rs                                                        *)
(***************************************************************************)
\* A plausible slip: an out-of-range degree is clamped into 1..7.
Mut_ScaleDegree_new_clamp(degree, accidental) ==
    ScaleDegree(IF degree < 1 THEN 1 ELSE IF degree > 7 THEN 7 ELSE degree, accidental)

ScaleDegree_new(degree, accidental) ==
    IF 1 <= degree /\ degree <= 7
    THEN ScaleDegree(degree, accidental)
    ELSE Panic

\* A plausible slip: the degree's own accidental is not added to the pitch.
Mut_ScaleDegree_midi_in_key_noacc(d, key) ==
    LET delta == CASE d.degree = 1 -> 0
                   [] d.degree = 2 -> 2
                   [] d.degree = 3 -> 4
                   [] d.degree = 4 -> 5
                   [] d.degree = 5 -> 7
                   [] d.degree = 6 -> 9
                   [] d.degree = 7 -> 11
    IN  MidiPitch_add_i8(LetterNote_as_midi(key), delta)

ScaleDegree_midi_in_key(d, key) ==
    LET delta == CASE d.degree = 1 -> 0
                   [] d.degree = 2 -> 2
                   [] d.degree = 3 -> 4
                   [] d.degree = 4 -> 5
                   [] d.degree = 5 -> 7
                   [] d.degree = 6 -> 9
                   [] d.degree = 7 -> 11
    IN  MidiPitch_add_i8(MidiPitch_add_i8(LetterNote_as_midi(key), delta), d.acc)

\* A plausible slip: the letter is counted from the degree, not degree - 1.
Mut_ScaleDegree_in_key_next_letter(d, key) ==
    LET letter == Letter_add_i8(key.letter, AsI8(d.degree))
    IN  LetterNote_add_accidentals_to_match(
            LetterNote(letter, NATURAL), ScaleDegree_midi_in_key(d, key))

ScaleDegree_in_key(d, key) ==
    LET letter == Letter_add_i8(key.letter, AsI8(d.degree - 1))
    IN  LetterNote_add_accidentals_to_match(
            LetterNote(letter, NATURAL), ScaleDegree_midi_in_key(d, key))

\* Self(self.0, Accidental::new(delta)), where a is what new returned.
ScaleDegree_with_accidental(d, a) ==
    IF a = Panic THEN Panic ELSE ScaleDegree(d.degree, a.int)

ScaleDegree_add_accidentals_to_match(d, key, target) ==
    ScaleDegree_with_accidental(
        d,
        Accidental_new(
            FoldOctave(
                AsI8(MidiPitch_as_int(target)
                     - MidiPitch_as_int(LetterNote_as_midi(ScaleDegree_in_key(d, key))))
                  % 12)))

\* A plausible slip: the degree is counted from 0 (the + 1 is missing).
Mut_Letter_as_natural_scale_degree_zero(l, key) ==
    LET key_letter == key.letter
        degree == AsU8(AsI8(Letter_as_int(l) - Letter_as_int(key_letter)) % 7)
    IN  ScaleDegree(IF degree = 0 THEN 7 ELSE degree, NATURAL)

Letter_as_natural_scale_degree(l, key) ==
    LET key_letter == key.letter
        degree == AsU8(AsI8(Letter_as_int(l) - Letter_as_int(key_letter)) % 7) + 1
    IN  ScaleDegree(degree, NATURAL)

LetterNote_as_scale_degree(n, key) ==
    ScaleDegree_add_accidentals_to_match(
        Letter_as_natural_scale_degree(n.letter, key), key, LetterNote_as_midi(n))

Note_as_scale_degree(n, key) ==
    IF n.tag = "Letter" THEN LetterNote_as_scale_degree(n, key) ELSE n


(***************************************************************************)
(* Text.  A String is a sequence of characters; len() counts UTF-8 bytes.  *)
(***************************************************************************)
Utf8Len(c) == IF c = "é" THEN 2 ELSE 1

RECURSIVE ByteLen(_)
ByteLen(s) == IF s = <<>> THEN 0 ELSE Utf8Len(s[1]) + ByteLen(Tail(s))

Take(s, n) == SubSeq(s, 1, n)
Drop(s, n) == SubSeq(s, n + 1, Len(s))

RECURSIVE Repeat(_, _)
Repeat(c, n) == IF n <= 0 THEN <<>> ELSE <<c>> \o Repeat(c, n - 1)

RECURSIVE Concat(_)
Concat(ss) == IF ss = <<>> THEN <<>> ELSE ss[1] \o Concat(Tail(ss))

(***************************************************************************)
(* theory/chords.rs, chordpro/directives.rs, chordpro/charts.rs: the data  *)
(***************************************************************************)
Chord(root, quality, bass) ==
    [tag |-> "Chord", root |-> root, quality |-> quality, bass |-> bass]

Title(t) == [tag |-> "Title", text |-> t]
Comment(t) == [tag |-> "Comment", text |-> t]
Key(k) == [tag |-> "Key", key |-> k]
Tempo(n) == [tag |-> "Tempo", tempo |-> n]
Other(t) == [tag |-> "Other", text |-> t]

Chunk(chord, lyrics) == [chord |-> chord, lyrics |-> lyrics]
DirectiveLine(d) == [tag |-> "Directive", directive |-> d]
Content(chunks, inline) == [tag |-> "Content", chunks |-> chunks, inline |-> inline]
Chart(lines) == [tag |-> "Chart", lines |-> lines]

IsKeyLine(line) == line.tag = "Directive" /\ line.directive.tag = "Key"

(***************************************************************************)
(* chordpro/charts.rs: key, set_key, set_inline, to_numbers, transpose_to  *)
(***************************************************************************)
Chart_key(c) ==
    IF \E i \in 1 .. Len(c.lines) : IsKeyLine(c.lines[i])
    THEN LET i == CHOOSE i \in 1 .. Len(c.lines) :
                      /\ IsKeyLine(c.lines[i])
                      /\ \A j \in 1 .. i - 1 : ~IsKeyLine(c.lines[j])
         IN  c.lines[i].directive.key
    ELSE None

\* set_key that puts a new Key directive after the last line.
Mut_Chart_set_key_append(c, key) ==
    IF \E i \in 1 .. Len(c.lines) : IsKeyLine(c.lines[i])
    THEN LET i == CHOOSE i \in 1 .. Len(c.lines) :
                      /\ IsKeyLine(c.lines[i])
                      /\ \A j \in 1 .. i - 1 : ~IsKeyLine(c.lines[j])
         IN  Chart([c.lines EXCEPT ![i] = DirectiveLine(Key(key))])
    ELSE Chart(Append(c.lines, DirectiveLine(Key(key))))

Chart_set_key(c, key) ==
    IF \E i \in 1 .. Len(c.lines) : IsKeyLine(c.lines[i])
    THEN LET i == CHOOSE i \in 1 .. Len(c.lines) :
                      /\ IsKeyLine(c.lines[i])
                      /\ \A j \in 1 .. i - 1 : ~IsKeyLine(c.lines[j])
         IN  Chart([c.lines EXCEPT ![i] = DirectiveLine(Key(key))])
    ELSE LET n == Len(c.lines)
             \* position(..).unwrap_or(len), as a count of leading lines
             after_directives ==
                 IF \E i \in 1 .. n : c.lines[i].tag # "Directive"
                 THEN (CHOOSE i \in 1 .. n :
                          /\ c.lines[i].tag # "Directive"
                          /\ \A j \in 1 .. i - 1 : c.lines[j].tag = "Directive") - 1
                 ELSE n
         IN  Chart(Take(c.lines, after_directives)
                   \o <<DirectiveLine(Key(key))>>
                   \o Drop(c.lines, after_directives))

\* set_inline that stops after the first Content line.
Mut_Chart_set_inline_first(c, inline) ==
    Chart([i \in 1 .. Len(c.lines) |->
              IF /\ c.lines[i].tag = "Content"
                 /\ \A j \in 1 .. i - 1 : c.lines[j].tag # "Content"
              THEN Content(c.lines[i].chunks, inline)
              ELSE c.lines[i]])

Chart_set_inline(c, inline) ==
    Chart([i \in 1 .. Len(c.lines) |->
              IF c.lines[i].tag = "Content"
              THEN Content(c.lines[i].chunks, inline)
              ELSE c.lines[i]])

\* to_numbers with every degree counted from C.
Mut_to_numbers_closure_from_c(x, key) ==
    Note_as_scale_degree(x, Scale(LetterNote("C", NATURAL)))

\* The closure to_numbers hands to transform_all_notes.
to_numbers_closure(note, key) == Note_as_scale_degree(note, key)

\* .in_key(new_key) on what as_scale_degree returned (a panic goes on).
in_key_unless_panic(d, new_key) ==
    IF d = Panic THEN Panic ELSE ScaleDegree_in_key(d, new_key)

\* transpose_to with the degree re-rendered in the old key.
Mut_transpose_to_closure_old_key(x, old_key, new_key) ==
    in_key_unless_panic(Note_as_scale_degree(x, old_key), old_key)

\* The closure transpose_to hands to transform_all_notes.
transpose_to_closure(note, old_key, new_key) ==
    in_key_unless_panic(Note_as_scale_degree(note, old_key), new_key)

\* f of transform_all_notes: xf says which of the two closures it is.
NoteTransform(xf, note) ==
    IF xf.kind = "to_numbers"
    THEN to_numbers_closure(note, xf.key)
    ELSE transpose_to_closure(note, xf.old_key, xf.new_key)

\* Chord { root, quality, bass } of values that may have panicked.
Chord_unless_panic(root, quality, bass) ==
    IF root = Panic THEN Panic
    ELSE IF bass = Panic THEN Panic
    ELSE Chord(root, quality, bass)

\* The closure of transform_all_notes with the bass dropped.
Mut_transform_all_notes_closure_no_bass(xf, c) ==
    Chord_unless_panic(NoteTransform(xf, c.root), c.quality, None)

\* The closure transform_all_notes hands to transform_all_chords: the root is
\* computed first, then the bass; a panic in either leaves no new chord.
transform_all_notes_closure(xf, chord) ==
    Chord_unless_panic(
        NoteTransform(xf, chord.root),
        chord.quality,
        IF chord.bass = None THEN None ELSE NoteTransform(xf, chord.bass))

\* The loop of transform_all_chords, given new[i][j], the value of f on the
\* chord of chunk j of line i (None where there is no chord): lines and
\* chunks are visited in order and each chord is assigned in place; a panic
\* leaves the chords before it replaced and the rest as they were.
assign_chords(c, new) ==
    LET ChunkIdx(i) == IF c.lines[i].tag = "Content"
                       THEN 1 .. Len(c.lines[i].chunks) ELSE {}
        PanicsUpTo(i, j) ==
            \/ \E i2 \in 1 .. i - 1 : \E j2 \in ChunkIdx(i2) : new[i2][j2] = Panic
            \/ \E j2 \in 1 .. j : new[i][j2] = Panic
    IN  [chart |->
            Chart([i \in 1 .. Len(c.lines) |->
                IF c.lines[i].tag # "Content" THEN c.lines[i]
                ELSE Content(
                       [j \in 1 .. Len(c.lines[i].chunks) |->
                           IF new[i][j] # None /\ ~PanicsUpTo(i, j)
                           THEN Chunk(new[i][j], c.lines[i].chunks[j].lyrics)
                           ELSE c.lines[i].chunks[j]],
                       c.lines[i].inline)]),
         panicked |-> \E i \in 1 .. Len(c.lines) : \E j \in ChunkIdx(i) : new[i][j] = Panic]

transform_all_chords(c, xf) ==
    assign_chords(
        c,
        [i \in 1 .. Len(c.lines) |->
            IF c.lines[i].tag # "Content" THEN <<>>
            ELSE [j \in 1 .. Len(c.lines[i].chunks) |->
                     IF c.lines[i].chunks[j].chord = None THEN None
                     ELSE transform_all_notes_closure(xf, c.lines[i].chunks[j].chord)]])

transform_all_notes(c, xf) == transform_all_chords(c, xf)

\* to_numbers once self.key() has returned key.
to_numbers_with_key(c, key) ==
    IF key = None
    THEN [chart |-> c, panicked |-> TRUE]
    ELSE transform_all_notes(c, [kind |-> "to_numbers", key |-> key])

Chart_to_numbers(c) == to_numbers_with_key(c, Chart_key(c))

\* transpose_to that returns without the call of set_key.
Mut_set_key_unless_panicked_skip(r, new_key) == r

\* self.set_key(new_key), reached when transform_all_notes has returned.
set_key_unless_panicked(r, new_key) ==
    IF r.panicked THEN r
    ELSE [chart |-> Chart_set_key(r.chart, new_key), panicked |-> FALSE]

\* transpose_to that sets the key where there is none before it fails.
Mut_transpose_to_with_key_insert(c, old_key, new_key) ==
    IF old_key = None
    THEN [chart |-> Chart_set_key(c, new_key), panicked |-> TRUE]
    ELSE set_key_unless_panicked(
             transform_all_notes(
                 c, [kind |-> "transpose_to", old_key |-> old_key, new_key |-> new_key]),
             new_key)

\* transpose_to once self.key() has returned old_key.
transpose_to_with_key(c, old_key, new_key) ==
    IF old_key = None
    THEN [chart |-> c, panicked |-> TRUE]
    ELSE set_key_unless_panicked(
             transform_all_notes(
                 c, [kind |-> "transpose_to", old_key |-> old_key, new_key |-> new_key]),
             new_key)

Chart_transpose_to(c, new_key) == transpose_to_with_key(c, Chart_key(c), new_key)

(***************************************************************************)
(* Display: theory/notes.rs, theory/scales.rs, theory/chords.rs,           *)
(* chordpro/charts.rs                                                      *)
(***************************************************************************)
Display_Accidental(a) ==
    IF a < 0 THEN Repeat("b", 0 - a)
    ELSE IF a > 0 THEN Repeat("#", a)
    ELSE <<>>

Display_LetterNote(n) == <<n.letter>> \o Display_Accidental(n.acc)

DigitChars == <<"0", "1", "2", "3", "4", "5", "6", "7", "8", "9">>

RECURSIVE Display_uint(_)
Display_uint(n) ==
    IF n < 10 THEN <<DigitChars[n + 1]>>
    ELSE Display_uint(n \div 10) \o <<DigitChars[(n % 10) + 1]>>

Display_ScaleDegree(d) == Display_Accidental(d.acc) \o Display_uint(d.degree)

Display_Scale(k) == Display_LetterNote(k)

Display_Note(n) ==
    IF n.tag = "Letter" THEN Display_LetterNote(n) ELSE Display_ScaleDegree(n)

Display_Chord(c) ==
    Display_Note(c.root) \o c.quality
        \o (IF c.bass # None THEN <<"/">> \o Display_Note(c.bass) ELSE <<>>)

\* Display for Directive: the brace syntax of the directive grammar.
Display_Directive(d) ==
    CASE d.tag = "Title" -> <<"{", "t", "i", "t", "l", "e", ":">> \o d.text \o <<"}">>
      [] d.tag = "Comment" ->
            <<"{", "c", "o", "m", "m", "e", "n", "t", ":">> \o d.text \o <<"}">>
      [] d.tag = "Key" -> <<"{", "k", "e", "y", ":">> \o Display_Scale(d.key) \o <<"}">>
      [] d.tag = "Tempo" ->
            <<"{", "t", "e", "m", "p", "o", ":">> \o d.tempo \o <<"}">>
      [] d.tag = "Other" -> <<"{">> \o d.text \o <<"}">>

Display_Chunk(k) ==
    (IF k.chord # None THEN <<"[">> \o Display_Chord(k.chord) \o <<"]">> ELSE <<>>)
        \o k.lyrics

\* The loop turn with the cursor moved past the chord before the lyric line
\* is padded.
Mut_StackedStep_cursor_first(st, k) ==
    LET chord_line1 ==
            IF k.chord # None /\ ByteLen(st.chord_line) < st.index
            THEN st.chord_line \o Repeat(" ", st.index - ByteLen(st.chord_line))
            ELSE st.chord_line
        chord_line2 ==
            IF k.chord # None THEN chord_line1 \o Display_Chord(k.chord) ELSE chord_line1
        index1 == IF k.chord # None THEN ByteLen(chord_line2) + 1 ELSE st.index
        lyric_line1 ==
            IF k.lyrics # <<>> /\ ByteLen(st.lyric_line) < index1
            THEN st.lyric_line \o Repeat(" ", index1 - ByteLen(st.lyric_line))
            ELSE st.lyric_line
        lyric_line2 == lyric_line1 \o k.lyrics
        index2 == IF index1 >= ByteLen(lyric_line2) THEN index1 ELSE ByteLen(lyric_line2)
    IN  [index |-> index2, chord_line |-> chord_line2, lyric_line |-> lyric_line2]

\* The loop turn with the cursor left at the end of the chord (no + 1).
Mut_StackedStep_no_gap(st, k) ==
    LET chord_line1 ==
            IF k.chord # None /\ ByteLen(st.chord_line) < st.index
            THEN st.chord_line \o Repeat(" ", st.index - ByteLen(st.chord_line))
            ELSE st.chord_line
        lyric_line1 ==
            IF k.lyrics # <<>> /\ ByteLen(st.lyric_line) < st.index
            THEN st.lyric_line \o Repeat(" ", st.index - ByteLen(st.lyric_line))
            ELSE st.lyric_line
        chord_line2 ==
            IF k.chord # None THEN chord_line1 \o Display_Chord(k.chord) ELSE chord_line1
        index1 == IF k.chord # None THEN ByteLen(chord_line2) ELSE st.index
        lyric_line2 == lyric_line1 \o k.lyrics
        index2 == IF index1 >= ByteLen(lyric_line2) THEN index1 ELSE ByteLen(lyric_line2)
    IN  [index |-> index2, chord_line |-> chord_line2, lyric_line |-> lyric_line2]

\* One turn of the loop of the stacked branch: st holds index, chord_line
\* and lyric_line.
StackedStep(st, k) ==
    LET chord_line1 ==
            IF k.chord # None /\ ByteLen(st.chord_line) < st.index
            THEN st.chord_line \o Repeat(" ", st.index - ByteLen(st.chord_line))
            ELSE st.chord_line
        lyric_line1 ==
            IF k.lyrics # <<>> /\ ByteLen(st.lyric_line) < st.index
            THEN st.lyric_line \o Repeat(" ", st.index - ByteLen(st.lyric_line))
            ELSE st.lyric_line
        chord_line2 ==
            IF k.chord # None THEN chord_line1 \o Display_Chord(k.chord) ELSE chord_line1
        index1 == IF k.chord # None THEN ByteLen(chord_line2) + 1 ELSE st.index
        lyric_line2 == lyric_line1 \o k.lyrics
        index2 == IF index1 >= ByteLen(lyric_line2) THEN index1 ELSE ByteLen(lyric_line2)
    IN  [index |-> index2, chord_line |-> chord_line2, lyric_line |-> lyric_line2]

RECURSIVE StackedLoop(_, _)
StackedLoop(st, chunks) ==
    IF chunks = <<>> THEN st
    ELSE StackedLoop(StackedStep(st, chunks[1]), Tail(chunks))

Display_Line(line) ==
    IF line.tag = "Directive" THEN Display_Directive(line.directive)
    ELSE IF line.inline
    THEN Concat([j \in 1 .. Len(line.chunks) |-> Display_Chunk(line.chunks[j])])
    ELSE LET st == StackedLoop(
                       [index |-> 0, chord_line |-> <<>>, lyric_line |-> <<>>],
                       line.chunks)
         IN  (IF st.chord_line # <<>> THEN st.chord_line \o <<"\n">> ELSE <<>>)
                 \o st.lyric_line

Display_Chart(c) ==
    Concat([i \in 1 .. Len(c.lines) |-> Display_Line(c.lines[i]) \o <<"\n">>])

(***************************************************************************)
(* chordpro/parser.rs.  A parser takes the remaining input and returns     *)
(* POk(value, rest), PErr (nom::Err::Error) or PPanic (the thread panics). *)
(* The nom combinators are operators on such results.                      *)
(***************************************************************************)
POk(v, rest) == [ok |-> TRUE, panic |-> FALSE, val |-> v, rest |-> rest]
PErr == [ok |-> FALSE, panic |-> FALSE, val |-> None, rest |-> <<>>]
PPanic == [ok |-> FALSE, panic |-> TRUE, val |-> None, rest |-> <<>>]

\* (p1, p2).map(F), r1 being the result of p1: the second half.
AndThenEnd(v1, r2, F(_, _)) == IF r2.ok THEN POk(F(v1, r2.val), r2.rest) ELSE r2

\* (p1, p2).map(F), r1 being the result of p1.
AndThen(r1, P2(_), F(_, _)) == IF r1.ok THEN AndThenEnd(r1.val, P2(r1.rest), F) ELSE r1

\* p.map(F), r being the result of p.
Map(r, F(_)) == IF r.ok THEN POk(F(r.val), r.rest) ELSE r

\* alt((p1, p2)): the second is tried when the first returns an error.
Alt(r1, r2) == IF r1.ok \/ r1.panic THEN r1 ELSE r2

\* opt(p), r being the result of p on i.
Opt(r, i) == IF r.ok \/ r.panic THEN r ELSE POk(None, i)

First(x, y) == x
Second(x, y) == y
Pair(x, y) == <<x, y>>

StartsWith(s, t) == Len(s) >= Len(t) /\ Take(s, Len(t)) = t

\* tag(t)
tag(t, i) == IF StartsWith(i, t) THEN POk(t, Drop(i, Len(t))) ELSE PErr

\* eof
eof(i) == IF i = <<>> THEN POk(<<>>, i) ELSE PErr

\* Length of the longest prefix of s made of characters of the class.
PrefixLen(s, InClass(_)) ==
    CHOOSE n \in 0 .. Len(s) :
        /\ \A j \in 1 .. n : InClass(s[j])
        /\ n = Len(s) \/ ~InClass(s[n + 1])

SplitAt(i, n) == POk(Take(i, n), Drop(i, n))
SplitAt1(i, n) == IF n = 0 THEN PErr ELSE SplitAt(i, n)

\* take_while(class), take_while1(class)
take_while(InClass(_), i) == SplitAt(i, PrefixLen(i, InClass))
take_while1(InClass(_), i) == SplitAt1(i, PrefixLen(i, InClass))

IsSpace(c) == c \in {" ", "\t"}
IsWhitespace(c) == c \in {" ", "\t", "\n", "\r"}
IsDigit(c) == c \in {"0", "1", "2", "3", "4", "5", "6", "7", "8", "9"}
IsQualityChar(c) ==
    IsDigit(c) \/ c \in {"M", "a", "j", "m", "i", "n", "s", "u", "d", "+", "-"}
is_lyrics_char(c) == c # "[" /\ c # "\r" /\ c # "\n"
IsNotLineBreak(c) == c # "\r" /\ c # "\n"
IsNotCloseBrace(c) == c # "}"

space0(i) == take_while(IsSpace, i)
space1(i) == take_while1(IsSpace, i)

line_ending(i) == Alt(tag(<<"\n">>, i), tag(<<"\r", "\n">>, i))

\* take_until("}")
take_until_close_brace(i) ==
    IF \A j \in 1 .. Len(i) : i[j] # "}" THEN PErr
    ELSE take_while(IsNotCloseBrace, i)

\* A plausible slip: the single accidentals are tried before the double ones.
Mut_accidental_single_first(i) ==
    IF StartsWith(i, <<"b">>) THEN POk(FLAT, Drop(i, 1))
    ELSE IF StartsWith(i, <<"b", "b">>) THEN POk(DOUBLE_FLAT, Drop(i, 2))
    ELSE IF StartsWith(i, <<"#">>) THEN POk(SHARP, Drop(i, 1))
    ELSE IF StartsWith(i, <<"#", "#">>) THEN POk(DOUBLE_SHARP, Drop(i, 2))
    ELSE POk(NATURAL, i)

accidental(i) ==
    IF StartsWith(i, <<"b", "b">>) THEN POk(DOUBLE_FLAT, Drop(i, 2))
    ELSE IF StartsWith(i, <<"b">>) THEN POk(FLAT, Drop(i, 1))
    ELSE IF StartsWith(i, <<"#", "#">>) THEN POk(DOUBLE_SHARP, Drop(i, 2))
    ELSE IF StartsWith(i, <<"#">>) THEN POk(SHARP, Drop(i, 1))
    ELSE POk(NATURAL, i)

letter(i) ==
    IF i # <<>> /\ i[1] \in Letters THEN POk(i[1], Tail(i)) ELSE PErr

letter_note(i) == AndThen(letter(i), accidental, LetterNote)

DigitVal(c) == CHOOSE d \in 0 .. 9 : DigitChars[d + 1] = c

bare_scale_degree(i) ==
    IF i # <<>> /\ i[1] \in {"1", "2", "3", "4", "5", "6", "7"}
    THEN POk(DigitVal(i[1]), Tail(i))
    ELSE PErr

scale_degree(i) ==
    AndThen(accidental(i), bare_scale_degree, LAMBDA a, degree : ScaleDegree_new(degree, a))

scale(i) == letter_note(i)

note(i) == Alt(letter_note(i), scale_degree(i))

chord_quality(i) == take_while(IsQualityChar, i)

\* opt((tag("/"), note).map(|(_, b)| b))
slash_bass(i) == Opt(AndThen(tag(<<"/">>, i), note, Second), i)

chord(i) ==
    AndThen(AndThen(note(i), chord_quality, Pair),
            slash_bass,
            LAMBDA rq, bass : Chord(rq[1], rq[2], bass))

boxed_chord(i) ==
    AndThen(AndThen(tag(<<"[">>, i), chord, Second),
            LAMBDA j : tag(<<"]">>, j),
            First)

chunk(i) ==
    Alt(AndThen(boxed_chord(i), LAMBDA j : take_while(is_lyrics_char, j), Chunk),
        Map(take_while1(is_lyrics_char, i), LAMBDA lyrics : Chunk(None, lyrics)))

\* many0(chunk): the loop, and what it does with the result r of chunk on i.
RECURSIVE many0_chunk(_, _)
RECURSIVE many0_chunk_step(_, _, _)
many0_chunk(acc, i) == many0_chunk_step(acc, i, chunk(i))
many0_chunk_step(acc, i, r) ==
    IF ~r.ok THEN POk(acc, i)
    ELSE IF Len(r.rest) = Len(i) THEN PErr
    ELSE many0_chunk(Append(acc, r.val), r.rest)

inline_content(i) == many0_chunk(<<>>, i)

\* str::trim: s without the whitespace before its first and after its last
\* character that is not whitespace.
TrimBounds(s, a, b) == SubSeq(s, a + 1, Len(s) - b)
trim(s) ==
    IF \A j \in 1 .. Len(s) : IsWhitespace(s[j]) THEN <<>>
    ELSE TrimBounds(s, PrefixLen(s, IsWhitespace),
                    PrefixLen([j \in 1 .. Len(s) |-> s[Len(s) + 1 - j]], IsWhitespace))

\* u32::MAX in decimal.  A u32 is held as its decimal digits (no leading
\* zeros), so that a value of any size is exact.
U32MaxDigits == <<"4", "2", "9", "4", "9", "6", "7", "2", "9", "5">>

LeqU32Max(d) ==
    \/ Len(d) < Len(U32MaxDigits)
    \/ /\ Len(d) = Len(U32MaxDigits)
       /\ \/ d = U32MaxDigits
          \/ \E j \in 1 .. Len(d) :
                /\ DigitVal(d[j]) < DigitVal(U32MaxDigits[j])
                /\ \A k \in 1 .. j - 1 : d[k] = U32MaxDigits[k]

IsZeroChar(c) == c = "0"

\* The value of a non-empty row of digits: the row without leading zeros.
DigitsCanon(digits, zeros) ==
    IF zeros = Len(digits) THEN <<"0">> ELSE Drop(digits, zeros)

u32_of_digits(digits) ==
    IF digits = <<>> \/ \E j \in 1 .. Len(digits) : ~IsDigit(digits[j]) THEN PErr
    ELSE IF ~LeqU32Max(DigitsCanon(digits, PrefixLen(digits, IsZeroChar))) THEN PErr
    ELSE POk(DigitsCanon(digits, PrefixLen(digits, IsZeroChar)), <<>>)

\* <u32 as FromStr>::from_str: an optional +, then digits, at most u32::MAX.
parse_u32(s) == u32_of_digits(IF s # <<>> /\ s[1] = "+" THEN Tail(s) ELSE s)

\* <Scale as FromStr>::from_str: the scale parser; what follows the note is
\* dropped with the remaining input.
Scale_from_str(s) == scale(s)

\* str::split_once(':')
IsNotColon(c) == c # ":"
SplitOnceAt(s, j) == [found |-> TRUE, left |-> Take(s, j), right |-> Drop(s, j + 1)]
split_once_colon(s) ==
    IF \E j \in 1 .. Len(s) : s[j] = ":"
    THEN SplitOnceAt(s, PrefixLen(s, IsNotColon))
    ELSE [found |-> FALSE, left |-> <<>>, right |-> <<>>]

\* The match of directive with a fallback that keeps the right side only.
Mut_directive_match_right_side(content, sp, key, tempo) ==
    IF sp.found /\ sp.left = <<"t", "i", "t", "l", "e">> THEN Title(sp.right)
    ELSE IF sp.found /\ sp.left = <<"c", "o", "m", "m", "e", "n", "t">>
    THEN Comment(sp.right)
    ELSE IF sp.found /\ sp.left = <<"k", "e", "y">> /\ key.ok THEN Key(key.val)
    ELSE IF sp.found /\ sp.left = <<"t", "e", "m", "p", "o">> /\ tempo.ok
    THEN Tempo(tempo.val)
    ELSE Other(sp.right)

\* The match of the closure of directive: sp is content.split_once(':'),
\* key is key.parse() and tempo is tempo.trim().parse() of its right side.
directive_match(content, sp, key, tempo) ==
    IF sp.found /\ sp.left = <<"t", "i", "t", "l", "e">> THEN Title(sp.right)
    ELSE IF sp.found /\ sp.left = <<"c", "o", "m", "m", "e", "n", "t">>
    THEN Comment(sp.right)
    ELSE IF sp.found /\ sp.left = <<"k", "e", "y">> /\ key.ok THEN Key(key.val)
    ELSE IF sp.found /\ sp.left = <<"t", "e", "m", "p", "o">> /\ tempo.ok
    THEN Tempo(tempo.val)
    ELSE Other(content)

directive_of_split(content, sp) ==
    directive_match(content, sp, Scale_from_str(sp.right), parse_u32(trim(sp.right)))

\* The closure of directive: from the content between the braces to a Directive.
directive_of_content(content) == directive_of_split(content, split_once_colon(content))

directive(i) ==
    Map(AndThen(AndThen(tag(<<"{">>, i), take_until_close_brace, Second),
            LAMBDA j : tag(<<"}">>, j),
            First),
        directive_of_content)

\* The byte offset k of a str is a char boundary; the char index there.
IsCharBoundary(s, k) == \E n \in 0 .. Len(s) : ByteLen(Take(s, n)) = k
CharsBefore(s, k) == CHOOSE n \in 0 .. Len(s) : ByteLen(Take(s, n)) = k

\* &s[a..b] with byte offsets a <= b <= s.len(): panics off a char boundary.
str_slice(s, a, b) ==
    IF IsCharBoundary(s, a) /\ IsCharBoundary(s, b)
    THEN [ok |-> TRUE, str |-> SubSeq(s, CharsBefore(s, a) + 1, CharsBefore(s, b))]
    ELSE [ok |-> FALSE, str |-> <<>>]

Min(a, b) == IF a <= b THEN a ELSE b

IndexedChord(index, c) == [index |-> index, chord |-> c]

\* The element parser of the chord row: alt((boxed_chord, chord)) with the
\* byte offset of its start in the row.
indexed_chord(i, start_len) ==
    Map(Alt(boxed_chord(i), chord(i)),
        LAMBDA c : IndexedChord(start_len - ByteLen(i), c))

\* separated_list1(space1, indexed_chord) after its first element: the loop,
\* and what it does with the result r of (space1, indexed_chord) on i.
RECURSIVE separated_list1_rest(_, _, _)
RECURSIVE separated_list1_step(_, _, _, _)
separated_list1_rest(acc, i, start_len) ==
    separated_list1_step(
        acc, i, start_len,
        AndThen(space1(i), LAMBDA j : indexed_chord(j, start_len), Second))
separated_list1_step(acc, i, start_len, r) ==
    IF ~r.ok THEN POk(acc, i)
    ELSE separated_list1_rest(Append(acc, r.val), r.rest, start_len)

separated_list1_first(first, start_len) ==
    IF first.ok THEN separated_list1_rest(<<first.val>>, first.rest, start_len)
    ELSE first

separated_list1(i, start_len) ==
    separated_list1_first(indexed_chord(i, start_len), start_len)

\* alt((eof, (line_ending, eof), (line_ending, take_while(not a line break)))):
\* the lyric row.
lyric_row(i) ==
    Alt(eof(i),
        Alt(AndThen(line_ending(i), eof, Second),
            AndThen(line_ending(i), LAMBDA j : take_while(IsNotLineBreak, j), Second)))

\* The closure of chords_over_lyrics_content with its slices taken: leading
\* is the slice before the first chord (none if that chord is at offset 0),
\* spans[n] the slice of chord n.
chunks_of_slices(chords, leading, spans) ==
    IF \/ \E n \in 1 .. Len(leading) : ~leading[n].ok
       \/ \E n \in 1 .. Len(spans) : ~spans[n].ok
    THEN [ok |-> FALSE, chunks |-> <<>>]
    ELSE [ok |-> TRUE,
          chunks |-> [n \in 1 .. Len(leading) |-> Chunk(None, leading[n].str)]
                       \o [n \in 1 .. Len(chords) |-> Chunk(chords[n].chord, spans[n].str)]]

\* The closure of chords_over_lyrics_content: from the chords with their
\* offsets and the lyric row to the chunks (not ok when a slice panics).
pair_chords_with_lyrics(chords, lyrics) ==
    chunks_of_slices(
        chords,
        IF chords[1].index # 0
        THEN <<str_slice(lyrics, 0, Min(chords[1].index, ByteLen(lyrics)))>>
        ELSE <<>>,
        [n \in 1 .. Len(chords) |->
            str_slice(lyrics,
                      Min(chords[n].index, ByteLen(lyrics)),
                      IF n < Len(chords)
                      THEN Min(chords[n + 1].index, ByteLen(lyrics))
                      ELSE ByteLen(lyrics))])

\* .map(closure) where the closure may panic.
MapPaired(r, paired) ==
    IF ~r.ok THEN r
    ELSE IF ~paired.ok THEN PPanic
    ELSE POk(paired.chunks, r.rest)

PairedOf(r) ==
    MapPaired(r, IF r.ok THEN pair_chords_with_lyrics(r.val[1], r.val[2])
                 ELSE [ok |-> FALSE, chunks |-> <<>>])

chords_over_lyrics_content(i, extensions_enabled) ==
    IF ~extensions_enabled THEN PErr
    ELSE PairedOf(
             AndThen(AndThen(AndThen(space0(i),
                         LAMBDA j : separated_list1(j, ByteLen(i)),
                         Second),
                     space0,
                     First),
                 lyric_row,
                 Pair))

line(i, extensions_enabled) ==
    Alt(Map(directive(i), DirectiveLine),
        Alt(Map(chords_over_lyrics_content(i, extensions_enabled),
                LAMBDA chunks : Content(chunks, FALSE)),
            Map(inline_content(i), LAMBDA chunks : Content(chunks, TRUE))))

\* The element of many_till without its optional line ending.
Mut_line_opt_ending_kept(i, extensions_enabled) == line(i, extensions_enabled)

\* (line, opt(line_ending)).map(|(line, _)| line)
line_opt_ending(i, extensions_enabled) ==
    AndThen(line(i, extensions_enabled), LAMBDA j : Opt(line_ending(j), j), First)

\* many_till(.., eof): stops at end of input; an element that fails or that
\* consumes nothing is an error.  The loop, and what it does with the result
\* r of the element parser on i.
RECURSIVE many_till_eof(_, _, _)
RECURSIVE many_till_eof_step(_, _, _, _)
\* many_till that returns the lines parsed so far where the next one fails.
Mut_many_till_eof_step_partial(res, i, extensions_enabled, r) ==
    IF ~r.ok THEN POk(res, i)
    ELSE IF Len(r.rest) = Len(i) THEN POk(res, i)
    ELSE many_till_eof(Append(res, r.val), r.rest, extensions_enabled)

many_till_eof(res, i, extensions_enabled) ==
    IF i = <<>> THEN POk(res, i)
    ELSE many_till_eof_step(res, i, extensions_enabled,
                            line_opt_ending(i, extensions_enabled))
many_till_eof_step(res, i, extensions_enabled, r) ==
    IF ~r.ok THEN r
    ELSE IF Len(r.rest) = Len(i) THEN PErr
    ELSE many_till_eof(Append(res, r.val), r.rest, extensions_enabled)

chart_parser(i, extensions_enabled) ==
    Map(many_till_eof(<<>>, i, extensions_enabled), Chart)

\* <Chart as FromStr>::from_str
Chart_from_str(i, extensions_enabled) == chart_parser(i, extensions_enabled)

(***************************************************************************)
(* The pure functions of the theory modules, applied to drawn inputs.      *)
(*   kind "respell": LetterNote(letter, NATURAL)                           *)
(*                       .add_accidentals_to_match(MidiPitch(target))      *)
(*   kind "note":    note.as_scale_degree(key), then .in_key(k2) for any   *)
(*                   k2, then .as_scale_degree(k2)                         *)
(*   kind "degree_new":     ScaleDegree::new(degree, acc)                  *)
(*   kind "accidental_new": Accidental::new(delta)                         *)
(* out is the sequence of calls made so far, each with its result.         *)
(***************************************************************************)
MaxDegreeArg == 9
MaxDeltaArg == 4

\* MidiPitch values whose as_int() is the value itself (0 ..= i8::MAX).
MidiPitches == 0 .. 127

LetterNotes == {LetterNote(l, a) : l \in Letters, a \in Accidentals}
Keys == {Scale(n) : n \in LetterNotes}

NoChart == [tag |-> "NoChart"]
NoText == [tag |-> "NoText"]
NoOp == [op |-> "none"]

ChartIdle ==
    /\ input = <<>>
    /\ extensions = FALSE
    /\ chart = NoChart
    /\ pc = "idle"
    /\ prev = NoChart
    /\ last = NoOp
    /\ output = NoText
    /\ nops = 0
    /\ threads = <<>>

TheoryArgs ==
    {[kind |-> "respell", letter |-> l, target |-> t] : l \in Letters, t \in MidiPitches}
    \cup {[kind |-> "note", note |-> n, key |-> k] : n \in LetterNotes, k \in Keys}
    \cup {[kind |-> "degree_new", degree |-> d, acc |-> a] :
              d \in 0 .. MaxDegreeArg, a \in Accidentals}
    \cup {[kind |-> "accidental_new", delta |-> x] : x \in (0 - MaxDeltaArg) .. MaxDeltaArg}

InitTheory ==
    /\ arg \in TheoryArgs
    /\ out = <<>>
    /\ ChartIdle

T_Respell ==
    /\ arg.kind = "respell"
    /\ out = <<>>
    /\ out' = <<[fn |-> "add_accidentals_to_match",
                 val |-> LetterNote_add_accidentals_to_match(
                             LetterNote(arg.letter, NATURAL), arg.target)]>>
    /\ UNCHANGED <<arg, chartVars, threads>>

T_AsScaleDegree ==
    /\ arg.kind = "note"
    /\ out = <<>>
    /\ out' = <<[fn |-> "as_scale_degree", key |-> arg.key,
                 val |-> Note_as_scale_degree(arg.note, arg.key)]>>
    /\ UNCHANGED <<arg, chartVars, threads>>

T_InKey ==
    /\ arg.kind = "note"
    /\ Len(out) = 1
    /\ out[1].val # Panic
    /\ \E k2 \in Keys :
          out' = Append(out, [fn |-> "in_key", key |-> k2,
                              val |-> ScaleDegree_in_key(out[1].val, k2)])
    /\ UNCHANGED <<arg, chartVars, threads>>

T_AsScaleDegreeAgain ==
    /\ arg.kind = "note"
    /\ Len(out) = 2
    /\ out' = Append(out, [fn |-> "as_scale_degree", key |-> out[2].key,
                           val |-> Note_as_scale_degree(out[2].val, out[2].key)])
    /\ UNCHANGED <<arg, chartVars, threads>>

T_ScaleDegreeNew ==
    /\ arg.kind = "degree_new"
    /\ out = <<>>
    /\ out' = <<[fn |-> "ScaleDegree::new", val |-> ScaleDegree_new(arg.degree, arg.acc)]>>
    /\ UNCHANGED <<arg, chartVars, threads>>

T_AccidentalNew ==
    /\ arg.kind = "accidental_new"
    /\ out = <<>>
    /\ out' = <<[fn |-> "Accidental::new", val |-> Accidental_new(arg.delta)]>>
    /\ UNCHANGED <<arg, chartVars, threads>>

NextTheory ==
    \/ T_Respell
    \/ T_AsScaleDegree
    \/ T_InKey
    \/ T_AsScaleDegreeAgain
    \/ T_ScaleDegreeNew
    \/ T_AccidentalNew

SpecTheory == InitTheory /\ [][NextTheory]_vars

(***************************************************************************)
(* Claims on the theory functions (checked under SpecTheory).              *)
(***************************************************************************)

\* C1: respelling a natural letter L to a target of pitch class P keeps L and
\* gives the accidental a with base_pitch(L) + a = P (mod 12), -6 < a <= 6.
C1_RespellCorrect ==
    (arg.kind = "respell" /\ out # <<>>) =>
        LET r == out[1].val
        IN  /\ r.tag = "Letter"
            /\ r.letter = arg.letter
            /\ (Letter_as_midi(arg.letter) + r.acc) % 12 = arg.target % 12
            /\ -6 < r.acc
            /\ r.acc <= 6

\* C1 witness: B respelled to the pitch class of B flat (MidiPitch 82) gets
\* one flat, not eleven sharps.
C1_Witness ==
    /\ arg.kind = "respell"
    /\ arg.letter = "B"
    /\ arg.target = 82
    /\ out # <<>>
    /\ out[1].val = LetterNote("B", FLAT)

\* C2: when n.as_scale_degree(K) yields d, d.in_key(K) has the pitch of n
\* (as_midi equal modulo 12).
C2_RoundTripPitch ==
    (/\ arg.kind = "note"
     /\ Len(out) >= 2
     /\ out[2].key = arg.key) =>
        LetterNote_as_midi(out[2].val) % 12 = LetterNote_as_midi(arg.note) % 12

\* C2 witness: F## in the key of C is the degree ##4, which in C is F## again.
C2_Witness ==
    /\ arg.kind = "note"
    /\ arg.note = LetterNote("F", DOUBLE_SHARP)
    /\ arg.key = Scale(LetterNote("C", NATURAL))
    /\ Len(out) >= 2
    /\ out[1].val = ScaleDegree(4, DOUBLE_SHARP)
    /\ out[2].key = arg.key
    /\ out[2].val = LetterNote("F", DOUBLE_SHARP)

\* C3 as stated: R.as_scale_degree(K1).in_key(K2).as_scale_degree(K2) equals
\* R.as_scale_degree(K2) computed on the original letter note R.
C3_AsStated ==
    (arg.kind = "note" /\ Len(out) = 3) =>
        out[3].val = Note_as_scale_degree(arg.note, out[2].key)

\* C3 amended: R.as_scale_degree(K1).in_key(K2).as_scale_degree(K2) succeeds
\* and equals R.as_scale_degree(K1): the key change keeps the scale degree.
C3_DegreePreserved ==
    (arg.kind = "note" /\ Len(out) = 3) =>
        /\ out[3].val # Panic
        /\ out[3].val = out[1].val

\* C3 witness: G in the key of G is degree 1; in the key of A that is A, whose
\* degree in A is 1 again (while G itself is the degree b7 of A).
C3_Witness ==
    /\ arg.kind = "note"
    /\ arg.note = LetterNote("G", NATURAL)
    /\ arg.key = Scale(LetterNote("G", NATURAL))
    /\ Len(out) = 3
    /\ out[2].key = Scale(LetterNote("A", NATURAL))
    /\ out[2].val = LetterNote("A", NATURAL)
    /\ out[3].val = ScaleDegree(1, NATURAL)
    /\ Note_as_scale_degree(arg.note, out[2].key) = ScaleDegree(7, FLAT)

\* C9: ScaleDegree::new(d, a) succeeds exactly when 1 <= d <= 7 and
\* Accidental::new(x) exactly when -2 <= x <= 2; a success holds the arguments
\* as given (nothing is clamped), a failure is a panic; and every scale
\* degree that as_scale_degree or new yields has its degree in 1..7.
C9_ConstructionEnforced ==
    /\ (arg.kind = "degree_new" /\ out # <<>>) =>
          /\ (out[1].val # Panic) <=> (1 <= arg.degree /\ arg.degree <= 7)
          /\ (out[1].val # Panic) => out[1].val = ScaleDegree(arg.degree, arg.acc)
    /\ (arg.kind = "accidental_new" /\ out # <<>>) =>
          /\ (out[1].val # Panic) <=> (-2 <= arg.delta /\ arg.delta <= 2)
          /\ (out[1].val # Panic) => out[1].val.int = arg.delta
    /\ \A i \in 1 .. Len(out) :
          out[i].val.tag = "Number" => out[i].val.degree \in 1 .. 7

\* C9 witness: ScaleDegree::new(8, _) has panicked.
C9_Witness ==
    /\ arg.kind = "degree_new"
    /\ arg.degree = 8
    /\ out # <<>>
    /\ out[1].val = Panic


(***************************************************************************)
(* The life of a chart (main.rs and the public methods of Chart): the      *)
(* extensions flag is set, a text is parsed, the chart is transformed by   *)
(* set_key, set_inline, transpose_to and to_numbers, and written out.      *)
(***************************************************************************)
MaxPieces == 3
MaxOps == 2

\* Fragments of ChordPro text; an input is up to MaxPieces of them in a row.
Pieces ==
    {<<"{", "k", "e", "y", ":", "C", "}">>,
     <<"{", "k", "e", "y", ":", "G", "}">>,
     <<"{", "t", "i", "t", "l", "e", ":", "T", "}">>,
     <<"\n">>,
     <<"\r", "\n">>,
     <<"[", "G", "]", "l", "a">>,
     <<"[", "F", "#", "#", "m", "7", "/", "C", "b", "b", "]">>,
     <<"[", "b", "7", "/", "G", "]">>,
     <<"x">>,
     <<"[">>}

RECURSIVE TextsOf(_)
TextsOf(n) ==
    IF n = 0 THEN {<<>>}
    ELSE LET shorter == TextsOf(n - 1)
         IN  shorter \cup {t \o q : t \in shorter, q \in Pieces}

Texts == TextsOf(MaxPieces)

\* The keys handed to set_key and transpose_to.
OpKeys ==
    {Scale(LetterNote("A", NATURAL)),
     Scale(LetterNote("C", SHARP)),
     Scale(LetterNote("G", NATURAL))}

Init ==
    /\ arg = [kind |-> "none"]
    /\ out = <<>>
    /\ input \in Texts
    /\ extensions = FALSE
    /\ chart = NoChart
    /\ pc = "start"
    /\ prev = NoChart
    /\ last = NoOp
    /\ output = NoText
    /\ nops = 0
    /\ threads = <<>>

\* set_extensions_enabled(enabled), called before the parse as main does.
SetExtensionsEnabled ==
    /\ pc = "start"
    /\ \E enabled \in BOOLEAN :
          /\ enabled # extensions
          /\ extensions' = enabled
    /\ UNCHANGED <<theoryVars, threads, input, chart, pc, prev, last, output, nops>>

\* input.parse::<Chart>()
Parse ==
    /\ pc = "start"
    /\ LET r == Chart_from_str(input, extensions)
       IN  /\ chart' = IF r.ok THEN r.val ELSE NoChart
           /\ pc' = IF r.ok THEN "parsed" ELSE IF r.panic THEN "panicked" ELSE "parse_error"
    /\ prev' = NoChart
    /\ last' = [op |-> "parse"]
    /\ UNCHANGED <<theoryVars, threads, input, extensions, output, nops>>

CanCall == pc = "parsed" /\ nops < MaxOps

SetKey ==
    /\ CanCall
    /\ \E k \in OpKeys :
          /\ chart' = Chart_set_key(chart, k)
          /\ last' = [op |-> "set_key", key |-> k]
    /\ prev' = chart
    /\ nops' = nops + 1
    /\ UNCHANGED <<theoryVars, threads, input, extensions, pc, output>>

SetInline ==
    /\ CanCall
    /\ \E b \in BOOLEAN :
          /\ chart' = Chart_set_inline(chart, b)
          /\ last' = [op |-> "set_inline", inline |-> b]
    /\ prev' = chart
    /\ nops' = nops + 1
    /\ UNCHANGED <<theoryVars, threads, input, extensions, pc, output>>

TransposeTo ==
    /\ CanCall
    /\ \E k \in OpKeys :
          LET r == Chart_transpose_to(chart, k)
          IN  /\ chart' = r.chart
              /\ pc' = IF r.panicked THEN "panicked" ELSE pc
              /\ last' = [op |-> "transpose_to", key |-> k]
    /\ prev' = chart
    /\ nops' = nops + 1
    /\ UNCHANGED <<theoryVars, threads, input, extensions, output>>

ToNumbers ==
    /\ CanCall
    /\ LET r == Chart_to_numbers(chart)
       IN  /\ chart' = r.chart
           /\ pc' = IF r.panicked THEN "panicked" ELSE pc
    /\ last' = [op |-> "to_numbers"]
    /\ prev' = chart
    /\ nops' = nops + 1
    /\ UNCHANGED <<theoryVars, threads, input, extensions, output>>

\* print!("{chart}"): the chart is written out and the run ends.
Render ==
    /\ pc = "parsed"
    /\ output' = Display_Chart(chart)
    /\ pc' = "rendered"
    /\ UNCHANGED <<theoryVars, threads, input, extensions, chart, prev, last, nops>>

Next ==
    \/ SetExtensionsEnabled
    \/ Parse
    \/ SetKey
    \/ SetInline
    \/ TransposeTo
    \/ ToNumbers
    \/ Render

Spec == Init /\ [][Next]_vars

(***************************************************************************)
(* Properties of the transforms, read off the chart before the last call   *)
(* (prev) and the chart after it (chart).                                  *)
(***************************************************************************)
\* The places of a chart that carry a chord: <<i, j>> is chunk j of line i.
ChordPositions(c) ==
    {p \in UNION {{<<i, j>> : j \in 1 .. (IF c.lines[i].tag = "Content"
                                          THEN Len(c.lines[i].chunks) ELSE 0)} :
                  i \in 1 .. Len(c.lines)} :
        c.lines[p[1]].chunks[p[2]].chord # None}

ChordAt(c, p) == c.lines[p[1]].chunks[p[2]].chord

\* The notes a chart stores in its chords: the roots and the present basses.
StoredNotes(c) ==
    {ChordAt(c, p).root : p \in ChordPositions(c)}
        \cup {ChordAt(c, p).bass : p \in {q \in ChordPositions(c) : ChordAt(c, q).bass # None}}

\* The tonics of the Key directives of a chart.
StoredKeys(c) ==
    {c.lines[i].directive.key : i \in {k \in 1 .. Len(c.lines) : IsKeyLine(c.lines[k])}}

TransposeReturned == last.op = "transpose_to" /\ pc # "panicked"
ToNumbersReturned == last.op = "to_numbers" /\ pc # "panicked"

\* y is a letter note whose degree in K2 is the degree of x in K1.
DegreeCarried(x, y, K1, K2) ==
    /\ y.tag = "Letter"
    /\ Note_as_scale_degree(y, K2) # Panic
    /\ Note_as_scale_degree(y, K2) = Note_as_scale_degree(x, K1)

\* C4: when transpose_to(K2) has returned on a chart whose key was K1, every
\* chord root and every present bass is a letter note y whose scale degree in
\* K2 equals the scale degree in K1 of the note x it replaced (a numeric x
\* being its own degree), and a root on the tonic of K1 is now the tonic of K2.
C4_TransposePreservesDegrees ==
    TransposeReturned =>
        /\ Chart_key(prev) # None
        /\ ChordPositions(chart) = ChordPositions(prev)
        /\ \A p \in ChordPositions(prev) :
              /\ DegreeCarried(ChordAt(prev, p).root, ChordAt(chart, p).root,
                               Chart_key(prev), last.key)
              /\ ChordAt(prev, p).bass # None =>
                    /\ ChordAt(chart, p).bass # None
                    /\ DegreeCarried(ChordAt(prev, p).bass, ChordAt(chart, p).bass,
                                     Chart_key(prev), last.key)
              /\ ChordAt(prev, p).root = Chart_key(prev) =>
                    ChordAt(chart, p).root = last.key

\* A chart in G with a chord on G has been transposed to A: the chord is on A.
C4_Witness ==
    /\ TransposeReturned
    /\ Chart_key(prev) = Scale(LetterNote("G", NATURAL))
    /\ last.key = Scale(LetterNote("A", NATURAL))
    /\ \E p \in ChordPositions(prev) :
          /\ ChordAt(prev, p).root = LetterNote("G", NATURAL)
          /\ ChordAt(chart, p).root = LetterNote("A", NATURAL)

\* What transpose_to and to_numbers leave alone in a chunk.
ChunkFrame(old, new) ==
    /\ new.lyrics = old.lyrics
    /\ (new.chord = None) <=> (old.chord = None)
    /\ old.chord # None =>
          /\ new.chord.quality = old.chord.quality
          /\ (new.chord.bass = None) <=> (old.chord.bass = None)

\* What transpose_to and to_numbers leave alone in a line.
LineFrame(old, new) ==
    /\ new.tag = old.tag
    /\ old.tag = "Directive" =>
          IF IsKeyLine(old)
          THEN IsKeyLine(new) /\ (last.op = "to_numbers" => new = old)
          ELSE new = old
    /\ old.tag = "Content" =>
          /\ new.inline = old.inline
          /\ Len(new.chunks) = Len(old.chunks)
          /\ \A j \in 1 .. Len(old.chunks) : ChunkFrame(old.chunks[j], new.chunks[j])

\* C5: transpose_to and to_numbers change only the roots and basses of chords
\* (transpose_to also the payload of a Key directive): the qualities, the
\* presence of a bass, the lyrics, which chunks carry a chord, the number and
\* order of chunks and lines, each line's variant and inline flag and every
\* directive that is not a Key directive are as they were.
C5_TransformFrame ==
    last.op \in {"transpose_to", "to_numbers"} =>
        /\ Len(chart.lines) = Len(prev.lines)
        /\ \A i \in 1 .. Len(prev.lines) : LineFrame(prev.lines[i], chart.lines[i])

\* A transpose_to that returned and changed a chart holding a chord with a
\* quality and a bass, lyrics and a directive that is not a Key directive.
C5_Witness ==
    /\ TransposeReturned
    /\ chart # prev
    /\ \E p \in ChordPositions(prev) :
          /\ ChordAt(prev, p).quality # <<>>
          /\ ChordAt(prev, p).bass # None
          /\ ChordAt(chart, p).root # ChordAt(prev, p).root
    /\ \E i \in 1 .. Len(prev.lines) :
          prev.lines[i].tag = "Directive" /\ ~IsKeyLine(prev.lines[i])
    /\ \E i \in 1 .. Len(prev.lines) :
          /\ prev.lines[i].tag = "Content"
          /\ \E j \in 1 .. Len(prev.lines[i].chunks) : prev.lines[i].chunks[j].lyrics # <<>>

\* x has become the Number note of its degree in K (itself if it was one).
Numbered(x, y, K) ==
    /\ y.tag = "Number"
    /\ y = Note_as_scale_degree(x, K)
    /\ x.tag = "Number" => y = x

\* C6: when to_numbers has returned on a chart with key K, every chord root
\* and every present bass is the Number note of the old note's
\* as_scale_degree(K), a note that was numeric is unchanged, the Key
\* directives are unchanged and key() still returns K, and a second
\* to_numbers changes nothing.
C6_ToNumbers ==
    ToNumbersReturned =>
        /\ Chart_key(prev) # None
        /\ Chart_key(chart) = Chart_key(prev)
        /\ \A i \in 1 .. Len(prev.lines) :
              IsKeyLine(prev.lines[i]) => chart.lines[i] = prev.lines[i]
        /\ ChordPositions(chart) = ChordPositions(prev)
        /\ \A p \in ChordPositions(prev) :
              /\ Numbered(ChordAt(prev, p).root, ChordAt(chart, p).root, Chart_key(prev))
              /\ ChordAt(prev, p).bass # None =>
                    /\ ChordAt(chart, p).bass # None
                    /\ Numbered(ChordAt(prev, p).bass, ChordAt(chart, p).bass,
                                Chart_key(prev))
        /\ Chart_to_numbers(chart) = [chart |-> chart, panicked |-> FALSE]

\* to_numbers has returned on a chart in G holding the chord G over a lyric
\* (now 1) or a chord with a numeric root and a letter bass.
C6_Witness ==
    /\ ToNumbersReturned
    /\ chart # prev
    /\ Chart_key(prev) = Scale(LetterNote("G", NATURAL))
    /\ \E p \in ChordPositions(prev) :
          \/ /\ ChordAt(prev, p).root = LetterNote("G", NATURAL)
             /\ ChordAt(chart, p).root = ScaleDegree(1, NATURAL)
          \/ /\ ChordAt(prev, p).root.tag = "Number"
             /\ ChordAt(prev, p).bass # None
             /\ ChordAt(prev, p).bass.tag = "Letter"

\* C7: transpose_to and to_numbers called on a chart with no Key directive
\* fail instead of returning, and leave the chart as it was: no Key directive
\* inserted, no chord rewritten.
C7_MissingKeyFails ==
    (last.op \in {"transpose_to", "to_numbers"} /\ Chart_key(prev) = None) =>
        /\ pc = "panicked"
        /\ chart = prev

\* transpose_to has been called on a chart with a chord and no key.
C7_Witness ==
    /\ last.op = "transpose_to"
    /\ Chart_key(prev) = None
    /\ ChordPositions(prev) # {}
    /\ pc = "panicked"

\* to_numbers has been called on a chart with a chord and no key.
C7_WitnessToNumbers ==
    /\ last.op = "to_numbers"
    /\ Chart_key(prev) = None
    /\ ChordPositions(prev) # {}
    /\ pc = "panicked"

\* C8: in every chart reached by a parse and calls of set_key, set_inline,
\* transpose_to and to_numbers that returned, every accidental stored (in a
\* key tonic, in a letter or a numeric root or bass) lies in -2 .. 2.
C8_AccidentalsInRange ==
    pc \in {"parsed", "rendered"} =>
        /\ \A k \in StoredKeys(chart) : k.acc \in Accidentals
        /\ \A x \in StoredNotes(chart) : x.acc \in Accidentals

\* t without the one line break ("\n" or "\r\n") it may end with.
WithoutLastLineBreak(t) ==
    IF Len(t) >= 2 /\ t[Len(t) - 1] = "\r" /\ t[Len(t)] = "\n" THEN Take(t, Len(t) - 2)
    ELSE IF Len(t) >= 1 /\ t[Len(t)] = "\n" THEN Take(t, Len(t) - 1)
    ELSE t

\* C10: a text parsed with the extensions disabled and written out at once
\* comes back byte for byte, but for the line break after the last line: the
\* output has exactly one there, whatever the input has.
C10_InlineRoundTrip ==
    (pc = "rendered" /\ ~extensions /\ nops = 0) =>
        \/ output = input
        \/ output = WithoutLastLineBreak(input) \o <<"\n">>

(***************************************************************************)
(* The parser on its own: the extensions flag is set, a text is parsed and *)
(* the chart is written out.  Three families of texts are studied, each    *)
(* with its own initial states.                                            *)
(***************************************************************************)
RECURSIVE TextsFrom(_, _)
TextsFrom(pieces, n) ==
    IF n = 0 THEN {<<>>}
    ELSE TextsFrom(pieces, n - 1)
             \cup {t \o q : t \in TextsFrom(pieces, n - 1), q \in pieces}

\* The state before a run on one of the given texts.
InitOn(texts) ==
    /\ arg = [kind |-> "none"]
    /\ out = <<>>
    /\ input \in texts
    /\ extensions = FALSE
    /\ chart = NoChart
    /\ pc = "start"
    /\ prev = NoChart
    /\ last = NoOp
    /\ output = NoText
    /\ nops = 0
    /\ threads = <<>>

NextParse ==
    \/ SetExtensionsEnabled
    \/ Parse
    \/ Render

\* Texts of a few lines: lyrics, bracketed and bare chords, a directive, the
\* line endings and a carriage return on its own.
MaxLinePieces == 3

LinePieces ==
    {<<"x">>,
     <<"G">>,
     <<"[", "G", "]">>,
     <<"[">>,
     <<"{", "t", "i", "t", "l", "e", ":", "T", "}">>,
     <<"\n">>,
     <<"\r", "\n">>,
     <<"\r">>}

LineTexts == TextsFrom(LinePieces, MaxLinePieces)

InitLines == InitOn(LineTexts)

SpecLines == InitLines /\ [][NextParse]_vars

\* The parse of the input has been attempted.
ParseDone == last.op = "parse" /\ nops = 0 /\ pc # "start"

\* The parse of the input succeeded or failed as r did, with the chart of r.
ParseAgrees(r) ==
    /\ r.ok <=> chart # NoChart
    /\ r.ok => r.val = chart

MaxDirectiveTokens == 3

DirectiveTokens ==
    {<<"k", "e", "y", ":">>,
     <<"t", "e", "m", "p", "o", ":">>,
     <<"t", "i", "t", "l", "e", ":">>,
     <<"c", "o", "m", "m", "e", "n", "t", ":">>,
     <<"f", "o", "o">>,
     <<":">>,
     <<"G">>,
     <<"b">>,
     <<"m">>,
     <<"Z">>,
     <<" ">>,
     <<"7">>}

DirectiveTexts ==
    {<<"{">> \o t \o <<"}">> : t \in TextsFrom(DirectiveTokens, MaxDirectiveTokens)}

InitDirective == InitOn(DirectiveTexts)

SpecDirective == InitDirective /\ [][NextParse]_vars

\* What lies between the braces of a text of one directive.
BracedContent(t) == SubSeq(t, 2, Len(t) - 1)

HasColon(s) == \E j \in 1 .. Len(s) : s[j] = ":"

\* The index of the first colon of s.
FirstColon(s) ==
    CHOOSE j \in 1 .. Len(s) : s[j] = ":" /\ \A k \in 1 .. j - 1 : s[k] # ":"

LeftSide(s) == SubSeq(s, 1, FirstColon(s) - 1)
RightSide(s) == SubSeq(s, FirstColon(s) + 1, Len(s))

\* The texts of the letter notes: a letter followed by nothing, b, bb, # or ##.
AccidentalTexts ==
    {<<>>, <<"b">>, <<"b", "b">>, <<"#">>, <<"#", "#">>}

LetterNoteTexts == {<<l>> \o a : l \in Letters, a \in AccidentalTexts}

AccidentalOfText(a) ==
    CASE a = <<>> -> NATURAL
      [] a = <<"b">> -> FLAT
      [] a = <<"b", "b">> -> DOUBLE_FLAT
      [] a = <<"#">> -> SHARP
      [] a = <<"#", "#">> -> DOUBLE_SHARP

LetterNoteOfText(s) == LetterNote(s[1], AccidentalOfText(Tail(s)))

\* s is an unsigned integer in decimal: digits and nothing else.
IsUnsignedText(s) == s # <<>> /\ \A j \in 1 .. Len(s) : IsDigit(s[j])

\* The digits of an unsigned integer text without its leading zeros.
UnsignedOfText(s) ==
    IF \A j \in 1 .. Len(s) : s[j] = "0" THEN <<"0">>
    ELSE SubSeq(s, (CHOOSE j \in 1 .. Len(s) :
                        s[j] # "0" /\ \A k \in 1 .. j - 1 : s[k] = "0"), Len(s))

\* The content has no colon, an unrecognized left side, left side key with a
\* right side that starts with no letter note, or left side tempo with a
\* right side that, trimmed, is no unsigned integer.
FallsBack(s) ==
    \/ ~HasColon(s)
    \/ /\ HasColon(s)
       /\ \/ LeftSide(s) \notin {<<"t", "i", "t", "l", "e">>,
                                 <<"c", "o", "m", "m", "e", "n", "t">>,
                                 <<"k", "e", "y">>,
                                 <<"t", "e", "m", "p", "o">>}
          \/ /\ LeftSide(s) = <<"k", "e", "y">>
             /\ \A n \in 1 .. Len(RightSide(s)) :
                   SubSeq(RightSide(s), 1, n) \notin LetterNoteTexts
          \/ /\ LeftSide(s) = <<"t", "e", "m", "p", "o">>
             /\ ~IsUnsignedText(trim(RightSide(s)))

\* The text of one directive has been parsed to one Directive line.
OneDirective ==
    /\ pc \in {"parsed", "rendered"}
    /\ Len(chart.lines) = 1
    /\ chart.lines[1].tag = "Directive"

C13_TypedDirectiveDispatch ==
    (ParseDone /\ OneDirective) =>
        /\ chart.lines[1].directive.tag = "Key" =>
              /\ HasColon(BracedContent(input))
              /\ LeftSide(BracedContent(input)) = <<"k", "e", "y">>
              /\ RightSide(BracedContent(input)) \in LetterNoteTexts
              /\ chart.lines[1].directive.key
                     = Scale(LetterNoteOfText(RightSide(BracedContent(input))))
        /\ chart.lines[1].directive.tag = "Tempo" =>
              /\ HasColon(BracedContent(input))
              /\ LeftSide(BracedContent(input)) = <<"t", "e", "m", "p", "o">>
              /\ IsUnsignedText(trim(RightSide(BracedContent(input))))
              /\ chart.lines[1].directive.tempo
                     = UnsignedOfText(trim(RightSide(BracedContent(input))))
        /\ (HasColon(BracedContent(input))
                /\ LeftSide(BracedContent(input)) = <<"t", "i", "t", "l", "e">>) =>
              chart.lines[1].directive = Title(RightSide(BracedContent(input)))
        /\ (HasColon(BracedContent(input))
                /\ LeftSide(BracedContent(input)) = <<"c", "o", "m", "m", "e", "n", "t">>) =>
              chart.lines[1].directive = Comment(RightSide(BracedContent(input)))

\* Some [ of the text does not begin a bracketed chord closed by ], and
\* (extensions enabled) no position up to it begins a chords-over-lyrics
\* line, whose lyric row is taken as raw text.
MalformedBracket(t, extensions_enabled) ==
    \E j \in 1 .. Len(t) :
        /\ t[j] = "["
        /\ ~boxed_chord(Drop(t, j - 1)).ok
        /\ \A k \in 1 .. j :
              ~chords_over_lyrics_content(Drop(t, k - 1), extensions_enabled).ok

\* t without its line-break characters.
RECURSIVE WithoutLineBreaks(_)
WithoutLineBreaks(t) ==
    IF t = <<>> THEN <<>>
    ELSE IF t[1] \in {"\n", "\r"} THEN WithoutLineBreaks(Tail(t))
    ELSE <<t[1]>> \o WithoutLineBreaks(Tail(t))

\* C14: a text with a [ that matches none of the line forms (it does not
\* begin a well-formed bracketed chord and is not in the lyric row of a
\* chords-over-lyrics line) parses to an error and no chart; a parse that succeeds has consumed the
\* whole input: nothing is left over, and (extensions disabled) the lines of
\* the chart written in a row are the input without its line breaks.
C14_NoPartialParse ==
    ParseDone =>
        /\ MalformedBracket(input, extensions) => pc = "parse_error" /\ chart = NoChart
        /\ pc \in {"parsed", "rendered"} =>
              /\ Chart_from_str(input, extensions).rest = <<>>
              /\ ~extensions =>
                    Concat([k \in 1 .. Len(chart.lines) |-> Display_Line(chart.lines[k])])
                        = WithoutLineBreaks(input)

\* A text with a well-formed first line and a lone [ on its second line has
\* been rejected.
C14_Witness ==
    /\ ParseDone
    /\ input = <<"x", "\n", "[">>
    /\ MalformedBracket(input, extensions)
    /\ pc = "parse_error"
    /\ chart = NoChart

\* The number of Directive lines at the head of the lines.
LeadingDirectives(lines) ==
    Cardinality({i \in 1 .. Len(lines) :
                    \A j \in 1 .. i : lines[j].tag = "Directive"})

\* C15: set_key(k) on a chart with a Key directive replaces the payload of
\* the first one and leaves the number and order of lines alone; on a chart
\* without one it inserts exactly one Key(k) line at the index of the first
\* line that is not a Directive (at the end when every line is one) and the
\* other lines keep their order and content.  Afterwards key() returns k and
\* a second set_key(k) changes nothing.
C15_SetKey ==
    (last.op = "set_key" /\ nops > 0) =>
        LET k == last.key
            old == prev.lines
            new == chart.lines
            p == LeadingDirectives(old)
        IN  /\ (\E i \in 1 .. Len(old) : IsKeyLine(old[i])) =>
                  /\ Len(new) = Len(old)
                  /\ \E i \in 1 .. Len(old) :
                        /\ IsKeyLine(old[i])
                        /\ \A j \in 1 .. i - 1 : ~IsKeyLine(old[j])
                        /\ new[i] = DirectiveLine(Key(k))
                        /\ \A j \in 1 .. Len(old) : j # i => new[j] = old[j]
            /\ (\A i \in 1 .. Len(old) : ~IsKeyLine(old[i])) =>
                  /\ Len(new) = Len(old) + 1
                  /\ new[p + 1] = DirectiveLine(Key(k))
                  /\ \A j \in 1 .. p : new[j] = old[j]
                  /\ \A j \in p + 1 .. Len(old) : new[j + 1] = old[j]
            /\ Chart_key(chart) = k
            /\ Chart_set_key(chart, k) = chart

\* set_key has inserted a Key line between a leading directive and the
\* content of a chart that had no key.
C15_Witness ==
    /\ last.op = "set_key"
    /\ nops > 0
    /\ Len(prev.lines) = 2
    /\ prev.lines[1].tag = "Directive"
    /\ ~IsKeyLine(prev.lines[1])
    /\ prev.lines[2].tag = "Content"
    /\ Len(chart.lines) = 3
    /\ chart.lines[2] = DirectiveLine(Key(last.key))

\* C16: set_inline(b) sets the inline flag of every Content line to b and
\* changes nothing else: the number and order of lines, the Directive lines
\* and the chunks are as before; a second set_inline(b) changes nothing, and
\* set_inline(b) after set_inline(c) gives what set_inline(b) alone gives.
C16_SetInline ==
    (last.op = "set_inline" /\ nops > 0) =>
        LET b == last.inline
            old == prev.lines
            new == chart.lines
        IN  /\ Len(new) = Len(old)
            /\ \A i \in 1 .. Len(old) :
                  /\ new[i].tag = old[i].tag
                  /\ old[i].tag = "Directive" => new[i] = old[i]
                  /\ old[i].tag = "Content" =>
                        /\ new[i].inline = b
                        /\ new[i].chunks = old[i].chunks
            /\ Chart_set_inline(chart, b) = chart
            /\ \A c \in BOOLEAN :
                  Chart_set_inline(Chart_set_inline(prev, c), b) = chart

\* set_inline has changed the flag of two Content lines of a chart that also
\* has a Directive line, one of the Content lines carrying a chord.
C16_Witness ==
    /\ last.op = "set_inline"
    /\ nops > 0
    /\ Len(prev.lines) = 3
    /\ prev.lines[1].tag = "Directive"
    /\ prev.lines[2].tag = "Content"
    /\ prev.lines[3].tag = "Content"
    /\ prev.lines[2].inline # last.inline
    /\ prev.lines[3].inline # last.inline
    /\ \E j \in 1 .. Len(prev.lines[2].chunks) : prev.lines[2].chunks[j].chord # None
    /\ chart.lines[2].inline = last.inline
    /\ chart.lines[3].inline = last.inline

\* The text is written in inline form: it parses with extensions disabled,
\* and a chord name begins only right after a [.
InlineForm(t) ==
    /\ Chart_from_str(t, FALSE).ok
    /\ \A k \in 1 .. Len(t) :
          chord(Drop(t, k - 1)).ok => k > 1 /\ t[k - 1] = "["

\* C17: for a text in inline form, parsing with extensions enabled gives the
\* chart that parsing with extensions disabled gives.
C17_ExtensionsKeepInlineForm ==
    (ParseDone /\ InlineForm(input)) =>
        ParseAgrees(Chart_from_str(input, ~extensions))

\* The number of physical lines of a text: one for each line break (\n, with
\* or without a \r before it) and one more for text after the last one.
PhysicalLines(t) ==
    Cardinality({k \in 1 .. Len(t) : t[k] = "\n"})
        + (IF t # <<>> /\ t[Len(t)] # "\n" THEN 1 ELSE 0)

\* C18: with extensions disabled, every Content line of a parsed chart has
\* inline = TRUE, a row that is a bare chord name is one chordless chunk with
\* the row as its lyrics, and the chart has one Line for each physical line
\* of the text.
C18_ExtensionsDisabled ==
    (ParseDone /\ ~extensions /\ pc = "parsed") =>
        /\ \A i \in 1 .. Len(chart.lines) :
              chart.lines[i].tag = "Content" => chart.lines[i].inline
        /\ input = <<"G">> =>
              chart.lines = <<Content(<<Chunk(None, <<"G">>)>>, TRUE)>>
        /\ Len(chart.lines) = PhysicalLines(input)

(***************************************************************************)
(* Texts of two physical lines: a row of bare chords, then a lyric row     *)
(***************************************************************************)
MaxRowPieces == 3
MaxLyricChars == 3

RowPieces == {<<" ">>, <<"G">>, <<"A", "m">>}
LyricChars == {<<"é">>, <<"a">>}

StackedTexts ==
    {r \o <<"\n">> \o t : r \in TextsFrom(RowPieces, MaxRowPieces),
                          t \in TextsFrom(LyricChars, MaxLyricChars)}

InitStacked == InitOn(StackedTexts)

SpecStacked == InitStacked /\ [][NextParse]_vars

\* The text before the first \n and the text after it.
FirstRow(t) ==
    LET k == CHOOSE k \in 1 .. Len(t) :
                 t[k] = "\n" /\ \A j \in 1 .. k - 1 : t[j] # "\n"
    IN  Take(t, k - 1)
SecondRow(t) == Drop(t, Len(FirstRow(t)) + 1)

\* The character offsets at which the words of a row begin, in order, and
\* the word that begins at an offset.
WordStarts(row) ==
    LET S == {k \in 0 .. Len(row) - 1 :
                 row[k + 1] # " " /\ (k = 0 \/ row[k] = " ")}
    IN  [n \in 1 .. Cardinality(S) |->
            CHOOSE k \in S : Cardinality({j \in S : j < k}) = n - 1]
WordAt(row, k) ==
    LET e == CHOOSE e \in k + 1 .. Len(row) :
                 /\ e = Len(row) \/ row[e + 1] = " "
                 /\ \A j \in k + 1 .. e : row[j] # " "
    IN  SubSeq(row, k + 1, e)

\* A row of one or more chord names separated by spaces.
IsChordRow(row) ==
    /\ WordStarts(row) # <<>>
    /\ \A n \in 1 .. Len(WordStarts(row)) :
          LET r == chord(WordAt(row, WordStarts(row)[n]))
          IN  r.ok /\ r.rest = <<>>

\* The chunks of a chord row over the lyric row T with the offsets and the
\* spans counted in characters.
PairedByCharacters(row, T) ==
    LET o == WordStarts(row)
        n == Len(o)
        clamp(k) == Min(k, Len(T))
    IN  (IF o[1] # 0 THEN <<Chunk(None, SubSeq(T, 1, clamp(o[1])))>> ELSE <<>>)
        \o [i \in 1 .. n |->
               Chunk(chord(WordAt(row, o[i])).val,
                     SubSeq(T, clamp(o[i]) + 1,
                            IF i < n THEN clamp(o[i + 1]) ELSE Len(T)))]

\* C19: with extensions enabled a chord row followed by a lyric row T parses
\* to exactly one Content line with inline = FALSE whose chunks pair the
\* chords with the spans of T between their offsets, offsets and spans
\* counted in characters: a leading chordless chunk exactly when the first
\* offset is not 0, a chord beyond the end of T with empty lyrics, and the
\* lyrics of the chunks in a row equal to T.
C19_StackedPairing ==
    (ParseDone /\ extensions /\ IsChordRow(FirstRow(input))) =>
        /\ pc \in {"parsed", "rendered"}
        /\ chart.lines =
              <<Content(PairedByCharacters(FirstRow(input), SecondRow(input)), FALSE)>>
        /\ Concat([k \in 1 .. Len(chart.lines[1].chunks) |->
                      chart.lines[1].chunks[k].lyrics]) = SecondRow(input)

\* The chord line and the lyric line that the stacked branch writes for the
\* chunks, read back from the rendered text.
RowsOf(chunks) ==
    LET t == Display_Line(Content(chunks, FALSE))
    IN  IF \E k \in 1 .. Len(t) : t[k] = "\n"
        THEN [chords |-> FirstRow(t), lyrics |-> SecondRow(t)]
        ELSE [chords |-> <<>>, lyrics |-> t]

\* The columns (String::len of what stands before) at which the lyrics and
\* the chord of chunk j begin.
LyricColumn(chunks, j) ==
    ByteLen(RowsOf(Take(chunks, j)).lyrics) - ByteLen(chunks[j].lyrics)
ChordColumn(chunks, j) ==
    ByteLen(RowsOf(Take(chunks, j)).chords) - ByteLen(Display_Chord(chunks[j].chord))

\* The least column for what chunk j adds: the length of the lyric line,
\* and one more than the length of the chord line once it holds a chord,
\* both as the chunks before j left them.
MinColumn(chunks, j) ==
    LET before == RowsOf(Take(chunks, j - 1))
        after_chords == IF before.chords # <<>> THEN ByteLen(before.chords) + 1 ELSE 0
    IN  IF after_chords >= ByteLen(before.lyrics) THEN after_chords
        ELSE ByteLen(before.lyrics)

\* The chunks of the stacked Content lines of the rendered chart.
StackedRendered ==
    {chart.lines[i].chunks : i \in {i \in 1 .. Len(chart.lines) :
        chart.lines[i].tag = "Content" /\ ~chart.lines[i].inline}}

NumThreads == 2
Threads == 1 .. NumThreads

ThreadTexts ==
    {<<"G", "\n", "x">>,
     <<"x", "\n", "G", "\n", "x">>,
     <<"[", "G", "]">>,
     <<"x", "[">>}

ParseFailed == [tag |-> "Err"]

\* A thread that is not parsing: its cell, whether it ever set the cell,
\* and the text and the result of the parse it has finished, if any.
ThreadAtRest(flag, was_set) ==
    [flag |-> flag, was_set |-> was_set, pc |-> "idle",
     text |-> <<>>, rest |-> <<>>, lines |-> <<>>, result |-> NoChart]

InitThreads ==
    /\ arg = [kind |-> "none"]
    /\ out = <<>>
    /\ input = <<>>
    /\ extensions = FALSE
    /\ chart = NoChart
    /\ pc = "idle"
    /\ prev = NoChart
    /\ last = NoOp
    /\ output = NoText
    /\ nops = 0
    /\ threads = [t \in Threads |-> ThreadAtRest(FALSE, FALSE)]

\* EXTENSIONS_ENABLED.with(|cell| cell.get()) on thread t.
Mut_EXTENSIONS_ENABLED_static(t) == threads[1].flag

EXTENSIONS_ENABLED(t) == threads[t].flag

\* set_extensions_enabled(enabled) on a thread that is not inside a parse.
ThreadSetExtensionsEnabled ==
    /\ \E t \in Threads : \E enabled \in BOOLEAN :
          /\ threads[t].pc # "parsing"
          /\ threads' = [threads EXCEPT ![t] = ThreadAtRest(enabled, TRUE)]
    /\ UNCHANGED <<theoryVars, chartVars>>

\* text.parse::<Chart>() is entered on a thread.
ThreadParseBegin ==
    /\ \E t \in Threads : \E text \in ThreadTexts :
          /\ threads[t].pc = "idle"
          /\ threads' = [threads EXCEPT ![t].pc = "parsing",
                                        ![t].text = text,
                                        ![t].rest = text,
                                        ![t].lines = <<>>]
    /\ UNCHANGED <<theoryVars, chartVars>>

\* A turn of many_till without the check that the element consumed input.
Mut_ThreadTurn_unchecked(t, r) ==
    IF threads[t].rest = <<>>
    THEN [threads EXCEPT ![t].pc = "done", ![t].result = Chart(threads[t].lines)]
    ELSE IF ~r.ok
    THEN [threads EXCEPT ![t].pc = "done", ![t].result = ParseFailed]
    ELSE [threads EXCEPT ![t].rest = r.rest,
                         ![t].lines = Append(threads[t].lines, r.val)]

\* One turn of many_till((line, opt(line_ending)), eof) on thread t: r is
\* what the element parser returns on the rest of the text.
ThreadTurn(t, r) ==
    IF threads[t].rest = <<>>
    THEN [threads EXCEPT ![t].pc = "done", ![t].result = Chart(threads[t].lines)]
    ELSE IF ~r.ok \/ Len(r.rest) = Len(threads[t].rest)
    THEN [threads EXCEPT ![t].pc = "done", ![t].result = ParseFailed]
    ELSE [threads EXCEPT ![t].rest = r.rest,
                         ![t].lines = Append(threads[t].lines, r.val)]

ThreadParseStepOf(t) ==
    /\ threads[t].pc = "parsing"
    /\ threads' = ThreadTurn(t, line_opt_ending(threads[t].rest, EXTENSIONS_ENABLED(t)))
    /\ UNCHANGED <<theoryVars, chartVars>>

ThreadParseStep == \E t \in Threads : ThreadParseStepOf(t)

NextThreads ==
    \/ ThreadSetExtensionsEnabled
    \/ ThreadParseBegin
    \/ ThreadParseStep

SpecThreads == InitThreads /\ [][NextThreads]_vars

\* What a parse of the text returns with the flag at the given value.
ParseResult(text, enabled) ==
    LET r == Chart_from_str(text, enabled)
    IN  IF r.ok THEN r.val ELSE ParseFailed

\* C21: the extensions flag is per thread.  A parse that has finished on a
\* thread returned what a parse of its text returns under the last value the
\* thread itself set (disabled if it never set one), whatever the other
\* threads set before or during the parse.
C21_FlagPerThread ==
    \A t \in Threads :
        threads[t].pc = "done" =>
            /\ threads[t].result = ParseResult(threads[t].text, threads[t].flag)
            /\ ~threads[t].was_set =>
                  threads[t].result = ParseResult(threads[t].text, FALSE)

\* Thread 2 never set its flag and has parsed a chord row over a lyric row as
\* two inline lines, while thread 1 has extensions enabled.
C21_Witness ==
    /\ threads[1].flag
    /\ threads[2].pc = "done"
    /\ ~threads[2].was_set
    /\ threads[2].text = <<"G", "\n", "x">>
    /\ threads[2].result # ParseResult(threads[2].text, TRUE)
    /\ threads[2].result =
          Chart(<<Content(<<Chunk(None, <<"G">>)>>, TRUE),
                  Content(<<Chunk(None, <<"x">>)>>, TRUE)>>)

\* The physical lines of a text: the longest runs without a line-break
\* character.
PhysicalLineSet(t) ==
    {SubSeq(t, ab[1], ab[2]) : ab \in
        {ab \in (1 .. Len(t) + 1) \X (0 .. Len(t)) :
            /\ ab[1] <= ab[2] + 1
            /\ \A k \in ab[1] .. ab[2] : t[k] \notin {"\n", "\r"}
            /\ ab[1] = 1 \/ t[ab[1] - 1] \in {"\n", "\r"}
            /\ ab[2] = Len(t) \/ t[ab[2] + 1] \in {"\n", "\r"}}}

\* The text is { + content + } with no } in the content.
IsDirectiveText(l) ==
    /\ Len(l) >= 2
    /\ l[1] = "{"
    /\ l[Len(l)] = "}"
    /\ \A k \in 2 .. Len(l) - 1 : l[k] # "}"

\* C22: a Directive line of a parsed chart is the directive of an entire
\* physical line of the text, one that consists of {, content without } or
\* line break, and } with nothing after it on the line.
C22_DirectiveWholeLine ==
    (ParseDone /\ pc = "parsed") =>
        \A i \in 1 .. Len(chart.lines) :
            chart.lines[i].tag = "Directive" =>
                \E l \in PhysicalLineSet(input) :
                    /\ IsDirectiveText(l)
                    /\ chart.lines[i].directive = directive(l).val

IsPrefixOf(s, t) == Len(s) <= Len(t) /\ SubSeq(t, 1, Len(s)) = s

RECURSIVE WithoutSpaces(_)
WithoutSpaces(t) ==
    IF t = <<>> THEN <<>>
    ELSE IF t[1] = " " THEN WithoutSpaces(Tail(t))
    ELSE <<t[1]>> \o WithoutSpaces(Tail(t))

\* The chord line as it stands after the last chunk before j that has a
\* chord (empty when j has the first chord).
ChordsBefore(chunks, j) ==
    IF \E p \in 1 .. j - 1 : chunks[p].chord # None
    THEN LET p == CHOOSE p \in 1 .. j - 1 :
                      /\ chunks[p].chord # None
                      /\ \A q \in p + 1 .. j - 1 : chunks[q].chord = None
         IN  RowsOf(Take(chunks, p)).chords
    ELSE <<>>

\* C23: in the rendering of a stacked Content line the chords stand on the
\* chord line in chunk order, each one beginning at least one space after
\* the end of the one before it; the chord line is written exactly when the
\* line has a chord, and the lyric line is always written, with the lyrics
\* of the chunks in order and nothing but spaces between them.
C23_ChordsNeverCollide ==
    pc = "rendered" =>
        \A chunks \in StackedRendered :
            LET text == Display_Line(Content(chunks, FALSE))
                rows == RowsOf(chunks)
            IN  /\ (\E k \in 1 .. Len(text) : text[k] = "\n")
                       <=> (\E j \in 1 .. Len(chunks) : chunks[j].chord # None)
                /\ IsPrefixOf(text, output) \/ \E k \in 1 .. Len(output) :
                       output[k] = "\n" /\ IsPrefixOf(text \o <<"\n">>, Drop(output, k))
                /\ WithoutSpaces(rows.lyrics) =
                       WithoutSpaces(Concat([j \in 1 .. Len(chunks) |-> chunks[j].lyrics]))
                /\ \A j \in 1 .. Len(chunks) :
                      chunks[j].chord # None =>
                          LET upto == RowsOf(Take(chunks, j)).chords
                              before == ChordsBefore(chunks, j)
                              start == Len(upto) - Len(Display_Chord(chunks[j].chord))
                          IN  /\ IsPrefixOf(upto, rows.chords)
                              /\ Drop(upto, start) = Display_Chord(chunks[j].chord)
                              /\ IsPrefixOf(before, upto)
                              /\ before # <<>> => start > Len(before)
                              /\ \A k \in Len(before) + 1 .. start : upto[k] = " "

\* A stacked line of two chords, the first of four characters and without
\* lyrics, has been rendered: the second chord begins at column 5.
C23_Witness ==
    /\ pc = "rendered"
    /\ \E chunks \in StackedRendered :
          /\ Len(chunks) = 2
          /\ chunks[1].chord # None
          /\ chunks[1].lyrics = <<>>
          /\ chunks[2].chord # None
          /\ Len(Display_Chord(chunks[1].chord)) = 4
          /\ ChordColumn(chunks, 2) = 5

(***************************************************************************)
(* The scale functions applied to drawn inputs.                            *)
(*   kind "degree": ScaleDegree(degree, acc).in_key(key), then .as_midi()  *)
(*                  of the letter note it gave                             *)
(*   kind "letter": letter.as_natural_scale_degree(key)                    *)
(***************************************************************************)
Degrees == 1 .. 7

ScaleArgs ==
    {[kind |-> "degree", degree |-> d, acc |-> a, key |-> k] :
         d \in Degrees, a \in Accidentals, k \in Keys}
    \cup {[kind |-> "letter", letter |-> l, key |-> k] : l \in Letters, k \in Keys}

InitScale ==
    /\ arg \in ScaleArgs
    /\ out = <<>>
    /\ ChartIdle

S_InKey ==
    /\ arg.kind = "degree"
    /\ out = <<>>
    /\ out' = <<[fn |-> "in_key",
                 val |-> ScaleDegree_in_key(ScaleDegree(arg.degree, arg.acc), arg.key)]>>
    /\ UNCHANGED <<arg, chartVars, threads>>

S_AsMidi ==
    /\ arg.kind = "degree"
    /\ Len(out) = 1
    /\ out' = Append(out, [fn |-> "as_midi", val |-> LetterNote_as_midi(out[1].val)])
    /\ UNCHANGED <<arg, chartVars, threads>>

S_AsNaturalScaleDegree ==
    /\ arg.kind = "letter"
    /\ out = <<>>
    /\ out' = <<[fn |-> "as_natural_scale_degree",
                 val |-> Letter_as_natural_scale_degree(arg.letter, arg.key)]>>
    /\ UNCHANGED <<arg, chartVars, threads>>

NextScale ==
    \/ S_InKey
    \/ S_AsMidi
    \/ S_AsNaturalScaleDegree

SpecScale == InitScale /\ [][NextScale]_vars

\* The letters in musical order, the place of a letter in it, and the
\* semitones of a natural letter above C and of a major-scale degree above
\* the tonic.
LetterOrder == <<"C", "D", "E", "F", "G", "A", "B">>
LetterIndex(l) == CHOOSE i \in 1 .. 7 : LetterOrder[i] = l
MajorOffsets == <<0, 2, 4, 5, 7, 9, 11>>
PitchClass(n) == (MajorOffsets[LetterIndex(n.letter)] + n.acc) % 12

\* C24: for a key K, the natural degree d in K is the letter d - 1 places
\* after the letter of K's tonic (B is followed by C), at the major-scale
\* offset of d above the tonic modulo 12; degree 1 is the tonic itself, the
\* seven degrees use each letter exactly once, and as_natural_scale_degree
\* maps a letter back to (letter index - tonic letter index) mod 7 + 1.
C24_MajorScaleSpelling ==
    /\ (arg.kind = "degree" /\ arg.acc = NATURAL /\ out # <<>>) =>
          LET n == out[1].val
          IN  /\ n.tag = "Letter"
              /\ LetterIndex(n.letter) =
                     ((LetterIndex(arg.key.letter) - 1 + arg.degree - 1) % 7) + 1
              /\ (PitchClass(n) - PitchClass(arg.key)) % 12 = MajorOffsets[arg.degree]
              /\ arg.degree = 1 => n = arg.key
              /\ {ScaleDegree_in_key(ScaleDegree(e, NATURAL), arg.key).letter :
                     e \in Degrees} = Letters
    /\ (arg.kind = "letter" /\ out # <<>>) =>
          /\ out[1].val =
                 ScaleDegree(((LetterIndex(arg.letter) - LetterIndex(arg.key.letter)) % 7) + 1,
                             NATURAL)
          /\ ScaleDegree_in_key(out[1].val, arg.key).letter = arg.letter

\* The seventh degree of F## has been spelled: E##, the letter before F at
\* eleven semitones above F##.
C24_Witness ==
    /\ arg.kind = "degree"
    /\ arg.acc = NATURAL
    /\ arg.degree = 7
    /\ arg.key = Scale(LetterNote("F", DOUBLE_SHARP))
    /\ out # <<>>
    /\ out[1].val.letter = "E"

(***************************************************************************)
(* Chords written and read back.                                           *)
(*   kind "chord": a chord is displayed, and [ + the text + ] is parsed    *)
(*                 by boxed_chord                                          *)
(*   kind "token": a text is parsed by boxed_chord, and the chord it gave  *)
(*                 is displayed                                            *)
(***************************************************************************)
MaxQualityLen == 1
MaxTokenLen == 4

QualityChars ==
    {<<c>> : c \in {"0", "1", "2", "3", "4", "5", "6", "7", "8", "9",
                    "M", "a", "j", "m", "i", "n", "s", "u", "d", "+", "-"}}
TokenChars == {<<c>> : c \in {"C", "B", "b", "#", "7", "m", "/"}}

\* Every quality up to MaxQualityLen characters, and some longer ones.
Qualities ==
    TextsFrom(QualityChars, MaxQualityLen)
        \cup {<<"m", "7">>, <<"1", "1">>, <<"s", "u", "s", "4">>, <<"M", "a", "j", "7">>}

GrammarNotes ==
    LetterNotes \cup {ScaleDegree(d, a) : d \in Degrees, a \in Accidentals}

\* Chords without a bass with every quality, chords with a bass with some
\* qualities, and texts between brackets.
ChordArgs ==
    {[kind |-> "chord", chord |-> Chord(r, q, None)] :
         r \in GrammarNotes, q \in Qualities}
    \cup {[kind |-> "chord", chord |-> Chord(r, q, b)] :
              r \in GrammarNotes, q \in {<<>>, <<"7">>}, b \in GrammarNotes}
    \cup {[kind |-> "token", text |-> <<"[">> \o t \o <<"]">>] :
              t \in TextsFrom(TokenChars, MaxTokenLen)}

InitChord ==
    /\ arg \in ChordArgs
    /\ out = <<>>
    /\ ChartIdle

K_DisplayChord ==
    /\ arg.kind = "chord"
    /\ out = <<>>
    /\ out' = <<[fn |-> "display", val |-> Display_Chord(arg.chord)]>>
    /\ UNCHANGED <<arg, chartVars, threads>>

K_ParseDisplayed ==
    /\ arg.kind = "chord"
    /\ Len(out) = 1
    /\ out' = Append(out, [fn |-> "boxed_chord",
                           val |-> boxed_chord(<<"[">> \o out[1].val \o <<"]">>)])
    /\ UNCHANGED <<arg, chartVars, threads>>

K_ParseToken ==
    /\ arg.kind = "token"
    /\ out = <<>>
    /\ out' = <<[fn |-> "boxed_chord", val |-> boxed_chord(arg.text)]>>
    /\ UNCHANGED <<arg, chartVars, threads>>

K_DisplayParsed ==
    /\ arg.kind = "token"
    /\ Len(out) = 1
    /\ out[1].val.ok
    /\ out' = Append(out, [fn |-> "display", val |-> Display_Chord(out[1].val.val)])
    /\ UNCHANGED <<arg, chartVars, threads>>

NextChord ==
    \/ K_DisplayChord
    \/ K_ParseDisplayed
    \/ K_ParseToken
    \/ K_DisplayParsed

SpecChord == InitChord /\ [][NextChord]_vars

\* C25: the text [ + display(chord) + ] parses to exactly that chord, double
\* accidentals read as double ones; and the display of the chord parsed from
\* a token [text] is the text.
C25_ChordDisplayParse ==
    /\ (arg.kind = "chord" /\ Len(out) = 2) =>
          /\ out[2].val.ok
          /\ out[2].val.val = arg.chord
          /\ out[2].val.rest = <<>>
    /\ (arg.kind = "token" /\ Len(out) = 2) =>
          /\ out[1].val.rest = <<>>
          /\ <<"[">> \o out[2].val \o <<"]">> = arg.text

\* The chord bb7 with quality 7 over the bass A## has been displayed as
\* bb77/A## and read back.
C25_Witness ==
    /\ arg.kind = "chord"
    /\ arg.chord = Chord(ScaleDegree(7, DOUBLE_FLAT), <<"7">>, LetterNote("A", DOUBLE_SHARP))
    /\ Len(out) = 2
    /\ out[1].val = <<"b", "b", "7", "7", "/", "A", "#", "#">>
    /\ out[2].val.ok

(***************************************************************************)
(* The line loop of the chart parser on one thread, one step for each turn *)
(* of many_till, on the texts of LineTexts.  The thread that entered the   *)
(* loop keeps running it: weak fairness of the step.                       *)
(***************************************************************************)
InitLoop ==
    /\ arg = [kind |-> "none"]
    /\ out = <<>>
    /\ input = <<>>
    /\ extensions = FALSE
    /\ chart = NoChart
    /\ pc = "idle"
    /\ prev = NoChart
    /\ last = NoOp
    /\ output = NoText
    /\ nops = 0
    /\ threads = <<ThreadAtRest(FALSE, FALSE)>>

\* set_extensions_enabled(true) before the parse.
LoopSetExtensionsEnabled ==
    /\ threads[1].pc = "idle"
    /\ ~threads[1].was_set
    /\ threads' = <<ThreadAtRest(TRUE, TRUE)>>
    /\ UNCHANGED <<theoryVars, chartVars>>

LoopParseBegin ==
    /\ threads[1].pc = "idle"
    /\ \E text \in LineTexts :
          threads' = [threads EXCEPT ![1].pc = "parsing",
                                     ![1].text = text,
                                     ![1].rest = text,
                                     ![1].lines = <<>>]
    /\ UNCHANGED <<theoryVars, chartVars>>

LoopParseStep == ThreadParseStepOf(1)

NextLoop ==
    \/ LoopSetExtensionsEnabled
    \/ LoopParseBegin
    \/ LoopParseStep

\* Weak fairness of the step, WF_vars(LoopParseStep), written out: the step
\* is enabled exactly while the loop runs, and every turn changes the state.
LoopRuns == threads[1].pc = "parsing"
FairLoop == []<>(~LoopRuns) \/ []<><<LoopParseStep>>_vars

SpecLoop == InitLoop /\ [][NextLoop]_vars /\ FairLoop

\* A turn of the loop that does not end the parse leaves less text to parse.
TurnConsumes ==
    (threads[1].pc = "parsing" /\ threads'[1].pc = "parsing") =>
        Len(threads'[1].rest) < Len(threads[1].rest)

\* C26: the chart parser terminates on every text under either setting of
\* the flag, with a chart at the end of the input or with an error: every
\* turn of the line loop that does not end the parse consumes at least one
\* character, a parse that has begun ends, and it ends with what the parser
\* returns for the text.
C26_ParserTerminates ==
    /\ [][TurnConsumes]_vars
    /\ (threads[1].pc = "parsing") ~> (threads[1].pc = "done")
    /\ [](threads[1].pc = "done" =>
             threads[1].result = ParseResult(threads[1].text, threads[1].flag))

\* The parse of x followed by a lone carriage return has ended in an error:
\* after the line x nothing can be consumed at the carriage return.
C26_Witness ==
    /\ threads[1].pc = "done"
    /\ threads[1].text = <<"x", "\r">>
    /\ threads[1].rest = <<"\r">>
    /\ threads[1].result = ParseFailed

\* C27: for every letter note and every key of the grammar (any letter,
\* accidental in -2..2) as_scale_degree(key) returns a scale degree: the
\* Accidental constructor never fails.
C27_DegreeConversionTotal ==
    (arg.kind = "note" /\ out # <<>>) =>
        /\ out[1].val # Panic
        /\ out[1].val.tag = "Number"


(***************************************************************************)
(* Transposing a letter chart from key to key.  The chart is one Key       *)
(* directive and one line with a chord; transpose_to is called up to       *)
(* MaxOps times with keys of TransposeKeys.                                *)
(***************************************************************************)
TransposeKeys ==
    {Scale(LetterNote("C", NATURAL)),
     Scale(LetterNote("G", NATURAL)),
     Scale(LetterNote("E", FLAT)),
     Scale(LetterNote("B", SHARP)),
     Scale(LetterNote("F", DOUBLE_FLAT)),
     Scale(LetterNote("C", DOUBLE_SHARP))}

TransposeBasses == {None, LetterNote("B", FLAT), LetterNote("F", DOUBLE_SHARP)}

TransposeTexts ==
    {Display_Directive(Key(k)) \o <<"\n", "[">>
         \o Display_Chord(Chord(root, <<"m">>, bass)) \o <<"]", "l", "a">> :
       k \in TransposeKeys, root \in LetterNotes, bass \in TransposeBasses}

InitTranspose == InitOn(TransposeTexts)

TransposeToAny ==
    /\ CanCall
    /\ \E k \in TransposeKeys :
          LET r == Chart_transpose_to(chart, k)
          IN  /\ chart' = r.chart
              /\ pc' = IF r.panicked THEN "panicked" ELSE pc
              /\ last' = [op |-> "transpose_to", key |-> k]
    /\ prev' = chart
    /\ nops' = nops + 1
    /\ UNCHANGED <<theoryVars, threads, input, extensions, output>>

NextTranspose ==
    \/ Parse
    \/ TransposeToAny

SpecTranspose == InitTranspose /\ [][NextTranspose]_vars

\* Every note a chart stores is a letter note.
IsLetterChart(c) == \A x \in StoredNotes(c) : x.tag = "Letter"

\* A step in which transpose_to(last'.key) returns.
TransposeReturns ==
    /\ pc = "parsed"
    /\ pc' = "parsed"
    /\ nops' = nops + 1
    /\ last'.op = "transpose_to"

\* The second of two calls of transpose_to returns: prev is the chart before
\* the first call, chart the one between the two, chart' the one after them.
SecondTransposeReturns ==
    /\ TransposeReturns
    /\ last.op = "transpose_to"
    /\ IsLetterChart(prev)
    /\ \A k \in StoredKeys(prev) : k.acc \in Accidentals
    /\ \A x \in StoredNotes(prev) : x.acc \in Accidentals

\* C28: on a chart of letter notes with accidentals in -2 .. 2, whenever the
\* calls return, transpose_to(K2) followed by transpose_to(K1), K1 being the
\* key the chart had, gives back the chart (the same spellings, the same
\* key); transpose_to(K2) followed by transpose_to(K3) gives the chart that
\* transpose_to(K3) alone gives; and transpose_to(K1) alone changes nothing.
C28_TransposeInvertible ==
    [][/\ SecondTransposeReturns =>
             /\ last'.key = Chart_key(prev) => chart' = prev
             /\ ~Chart_transpose_to(prev, last'.key).panicked
             /\ chart' = Chart_transpose_to(prev, last'.key).chart
       /\ (TransposeReturns /\ IsLetterChart(chart) /\ last'.key = Chart_key(chart)) =>
             chart' = chart]_vars

\* A chart in B# with the chord F##m/Bb went to Fbb, where the chord is
\* spelled with accidentals outside -2 .. 2, and came back to B# unchanged.
C28_Witness ==
    /\ pc = "parsed"
    /\ nops = 2
    /\ last = [op |-> "transpose_to", key |-> Scale(LetterNote("B", SHARP))]
    /\ Chart_key(prev) = Scale(LetterNote("F", DOUBLE_FLAT))
    /\ \E x \in StoredNotes(prev) : x.acc \notin Accidentals
    /\ Chart_key(chart) = Scale(LetterNote("B", SHARP))
    /\ StoredNotes(chart) = {LetterNote("F", DOUBLE_SHARP), LetterNote("B", FLAT)}


(***************************************************************************)
(* A stacked line written out and read again with the extensions enabled.  *)
(***************************************************************************)
\* The chunks of a line that carry a chord, in order.
WithChord(chunks) == SelectSeq(chunks, LAMBDA k : k.chord # None)

\* The stacked lines of the chart with at least one chord.
StackedChordLines ==
    {chart.lines[i] : i \in {i \in 1 .. Len(chart.lines) :
        /\ chart.lines[i].tag = "Content"
        /\ ~chart.lines[i].inline
        /\ WithChord(chart.lines[i].chunks) # <<>>}}

\* got is text followed by spaces only.
PaddedWithSpaces(text, got) ==
    /\ Len(got) >= Len(text)
    /\ got = text \o Repeat(" ", Len(got) - Len(text))

\* r, the result of parsing the rows of the stacked line l, is one stacked
\* line with the chords of l in order, each with its lyrics and padding.
ReadBack(l, r) ==
    /\ r.ok
    /\ Len(r.val.lines) = 1
    /\ r.val.lines[1].tag = "Content"
    /\ ~r.val.lines[1].inline
    /\ LET old == WithChord(l.chunks)
           new == WithChord(r.val.lines[1].chunks)
       IN  /\ Len(new) = Len(old)
           /\ \A j \in 1 .. Len(old) :
                 /\ new[j].chord = old[j].chord
                 /\ PaddedWithSpaces(old[j].lyrics, new[j].lyrics)
           /\ Concat([j \in 1 .. Len(r.val.lines[1].chunks) |->
                         r.val.lines[1].chunks[j].lyrics])
                  = RowsOf(l.chunks).lyrics

\* C29: a Content line with inline = false and at least one chord, written
\* out and parsed with the extensions enabled, is again a single Content
\* line with inline = false, with the same chords (root, quality, bass) in
\* the same order, each with the same lyrics up to the spaces of the padding,
\* and the whole lyric row is taken as lyrics whatever it holds.
C29_StackedRoundTrip ==
    pc = "rendered" =>
        \A l \in StackedChordLines :
            ReadBack(l, Chart_from_str(Display_Line(l), TRUE))


(***************************************************************************)
(* The sums and differences of the pitch arithmetic before their casts.    *)
(* A cast changes nothing when an i8 value lies in I8Values and a          *)
(* MidiPitch in MidiPitches.                                               *)
(***************************************************************************)
I8Values == -128 .. 127

\* MidiPitch + i8 and MidiPitch + Accidental: self.as_int() + rhs.
AddExact(p, rhs) ==
    /\ p \in MidiPitches
    /\ rhs \in I8Values
    /\ MidiPitch_as_int(p) + rhs \in MidiPitches

\* LetterNote::as_midi: base_pitch + accidental.
AsMidiExact(n) ==
    /\ Letter_as_midi(n.letter) \in MidiPitches
    /\ n.acc \in I8Values
    /\ MidiPitch_as_int(Letter_as_midi(n.letter)) + n.acc \in MidiPitches

\* ScaleDegree::midi_in_key: key.0.as_midi() + delta + self.1.as_int().
MidiInKeyExact(d, key) ==
    /\ AsMidiExact(key)
    /\ AddExact(LetterNote_as_midi(key), MajorOffsets[d.degree])
    /\ AddExact(MidiPitch_add_i8(LetterNote_as_midi(key), MajorOffsets[d.degree]), d.acc)

\* LetterNote::add_accidentals_to_match: target_pitch - base_pitch, the
\* remainder in 0 .. 11 and the remainder less 12.
RespellExact(n, target) ==
    /\ target \in MidiPitches
    /\ Letter_as_midi(n.letter) \in MidiPitches
    /\ MidiPitch_as_int(target) - MidiPitch_as_int(Letter_as_midi(n.letter)) \in I8Values
    /\ LetterNote_add_accidentals_to_match(n, target).acc \in -5 .. 6

\* ScaleDegree::in_key: (self.0 - 1) as i8, midi_in_key and the respelling.
InKeyExact(d, key) ==
    /\ d.degree - 1 \in 0 .. 127
    /\ MidiInKeyExact(d, key)
    /\ RespellExact(LetterNote(Letter_add_i8(key.letter, d.degree - 1), NATURAL),
                    ScaleDegree_midi_in_key(d, key))
    /\ AsMidiExact(ScaleDegree_in_key(d, key))

\* ScaleDegree::add_accidentals_to_match:
\* target.as_int() - self.in_key(key).as_midi().as_int().
DegreeMatchExact(d, key, target) ==
    /\ InKeyExact(d, key)
    /\ target \in MidiPitches
    /\ MidiPitch_as_int(target)
           - MidiPitch_as_int(LetterNote_as_midi(ScaleDegree_in_key(d, key))) \in I8Values

\* LetterNote::as_scale_degree.
AsScaleDegreeExact(n, key) ==
    /\ AsMidiExact(n)
    /\ DegreeMatchExact(Letter_as_natural_scale_degree(n.letter, key), key,
                        LetterNote_as_midi(n))

\* C30: for every letter note and key with accidentals in -2 .. 2 and every
\* degree 1 .. 7 with an accidental in -2 .. 2, the values computed by
\* LetterNote::as_midi, ScaleDegree::midi_in_key, MidiPitch + i8,
\* MidiPitch + Accidental and both add_accidentals_to_match stay in
\* -128 .. 127 and every MidiPitch in 0 .. 127: no sum or difference wraps
\* and no cast changes a value; the same holds for the letter notes that
\* in_key returns, converted to a scale degree again.
C30_NoOverflow ==
    arg.kind = "note" =>
        /\ Len(out) >= 1 => AsScaleDegreeExact(arg.note, arg.key)
        /\ Len(out) >= 2 => InKeyExact(out[1].val, out[2].key)
        /\ Len(out) >= 3 => AsScaleDegreeExact(out[2].val, out[2].key)

\* B## is the degree #7 raised once more in C; in the key of B## that degree
\* is the highest pitch reached, 86, spelled on A with five sharps.
C30_Witness ==
    /\ arg.kind = "note"
    /\ arg.note = LetterNote("B", DOUBLE_SHARP)
    /\ arg.key = Scale(LetterNote("C", NATURAL))
    /\ Len(out) = 3
    /\ out[1].val = ScaleDegree(7, DOUBLE_SHARP)
    /\ out[2].key = Scale(LetterNote("B", DOUBLE_SHARP))
    /\ ScaleDegree_midi_in_key(out[1].val, out[2].key) = 86
    /\ out[2].val = LetterNote("A", 5)
    /\ out[3].val = out[1].val

====
